---- MODULE Spec2Model ----
(***************************************************************************)
(* The signaling relay of the space-shooter repository: the RoomManager    *)
(* registry (server/src/room.ts) and the SignalingServer message handlers  *)
(* (server/src/signaling.ts), as one state machine.  A step is one event   *)
(* of the server's event loop handled to completion: a new connection, one *)
(* inbound message, one socket close, one run of the cleanup interval, or  *)
(* the passing of time.                                                    *)
(***************************************************************************)
EXTENDS Integers, Sequences, FiniteSets, TLC

(* ------------------------------ bounds -------------------------------- *)

\* Connections ever accepted by the server; a connection's playerId (a fresh
\* uuid in the code) is its number.
MaxConns == 3
\* Rooms ever created; a room's id (a fresh uuid in the code) is its number.
MaxRooms == 2
\* Steps of the clock.
MaxTicks == 2
\* WebSockets one SignalingClient ever constructs: the first and those of
\* five reconnect attempts.
MaxSockets == 6
\* RTCPeerConnections one WebRTCConnection ever constructs.
MaxPeerConnections == 3
\* Periods of the heartbeat the clock of a WebRTCConnection runs through.
MaxBeats == 7

(* ------------------------- program constants -------------------------- *)

\* setInterval(..., 3600000) of the SignalingServer constructor.
cleanupIntervalMs == 3600000
\* cleanupOldRooms(maxAgeMs: number = 3600000).
maxAgeMs == 3600000
\* The clock is read in steps of the cleanup interval.
TickMs == cleanupIntervalMs

(* ------------------------------ inputs -------------------------------- *)

PlayerIds == 1..MaxConns
RoomIds == 1..MaxRooms
\* Values Math.random().toString(36).substring(2, 8).toUpperCase() can give;
\* nothing in createRoom keeps two rooms from drawing the same one.
RoomCodes == {"AB12CD", "ZZ99ZZ"}
\* Codes a client can put in join-room: the above and one no room ever has.
ClientCodes == RoomCodes \cup {"QQQQQQ"}
\* Session descriptions and candidates, opaque to the server.
Payloads == {"sdp-a", "sdp-b"}

\* A SignalingMessage.  An absent field is "" (0 for ids, <<>> for error),
\* which is also how the falsy values of the field read in handleMessage.
NoMessage ==
    [type |-> "", roomCode |-> "", roomId |-> 0, playerId |-> 0,
     offer |-> "", answer |-> "", candidate |-> "", error |-> <<>>]

\* What arrives on a socket: text that JSON.parse accepts, with the value it
\* parses to, or text it rejects.
NotJson == [parses |-> FALSE, value |-> NoMessage]
Json(m) == [parses |-> TRUE, value |-> m]

\* create-room, and join-room with a code.
RegistryData ==
    {Json([NoMessage EXCEPT !.type = "create-room"])}
    \cup {Json([NoMessage EXCEPT !.type = "join-room", !.roomCode = c]) : c \in ClientCodes}

\* offer, answer and ice-candidate with a room id and a payload.
RelayData ==
    {Json([NoMessage EXCEPT !.type = "offer", !.roomId = r, !.offer = x]) :
        r \in RoomIds, x \in Payloads}
    \cup {Json([NoMessage EXCEPT !.type = "answer", !.roomId = r, !.answer = x]) :
        r \in RoomIds, x \in Payloads}
    \cup {Json([NoMessage EXCEPT !.type = "ice-candidate", !.roomId = r, !.candidate = x]) :
        r \in RoomIds, x \in Payloads}

\* Pairs (roomId, payload) of which at least one is missing.
MissingFields ==
    {f \in (RoomIds \cup {0}) \X (Payloads \cup {""}) : f[1] = 0 \/ f[2] = ""}

\* Text that is not JSON, a value without a type, a type the server does
\* not know, and messages that lack a field their type needs.
ProtocolData ==
    {NotJson, Json(NoMessage), Json([NoMessage EXCEPT !.type = "ping"]),
     Json([NoMessage EXCEPT !.type = "join-room"])}
    \cup {Json([NoMessage EXCEPT !.type = "offer", !.roomId = f[1], !.offer = f[2]]) :
        f \in MissingFields}
    \cup {Json([NoMessage EXCEPT !.type = "answer", !.roomId = f[1], !.answer = f[2]]) :
        f \in MissingFields}
    \cup {Json([NoMessage EXCEPT !.type = "ice-candidate", !.roomId = f[1],
                                 !.candidate = f[2]]) :
        f \in MissingFields}

\* What the server sends a client: the acknowledgment of a connection with
\* the id given to it, the replies to create-room and join-room, the notice
\* of the other player, an error; and text that is not JSON.
InboundData ==
    {NotJson}
    \cup {Json([NoMessage EXCEPT !.type = "connection-established", !.playerId = p]) :
            p \in 1..2}
    \cup {Json([NoMessage EXCEPT !.type = "room-created", !.roomId = 1,
                                 !.roomCode = "AB12CD"]),
          Json([NoMessage EXCEPT !.type = "room-joined", !.roomId = 2,
                                 !.roomCode = "ZZ99ZZ"])}
    \cup {Json([NoMessage EXCEPT !.type = "player-joined", !.playerId = 2]),
          Json([NoMessage EXCEPT !.type = "error", !.error = <<"Room AB12CD is full">>])}

\* What the server sends the client of a WebRTCConnection: the above without
\* the faults, and the forwarded negotiation and the departure of the other
\* player.
SessionInbound ==
    {Json([NoMessage EXCEPT !.type = "connection-established", !.playerId = 1]),
     Json([NoMessage EXCEPT !.type = "room-created", !.roomId = 1, !.roomCode = "AB12CD"]),
     Json([NoMessage EXCEPT !.type = "room-joined", !.roomId = 1, !.roomCode = "AB12CD"]),
     Json([NoMessage EXCEPT !.type = "player-joined", !.playerId = 2]),
     Json([NoMessage EXCEPT !.type = "offer", !.offer = "sdp-a", !.playerId = 2]),
     Json([NoMessage EXCEPT !.type = "answer", !.answer = "sdp-b", !.playerId = 2]),
     Json([NoMessage EXCEPT !.type = "player-disconnected", !.playerId = 2])}

\* What the peer sends on a data channel.
ChannelData ==
    {[type |-> "HEARTBEAT", playerId |-> 2, event |-> ""],
     [type |-> "HEARTBEAT_ACK", playerId |-> 2, event |-> ""],
     [type |-> "POSITION_UPDATE", playerId |-> 2, event |-> ""]}

(* ------------------------------- state -------------------------------- *)

VARIABLES
    sockets,      \* playerId -> "none" | "open" | "closed": the WebSocket of each connection
    rooms,        \* RoomManager.rooms: the rooms in Map insertion order
    playerRooms,  \* RoomManager.playerRooms: playerId -> roomId, 0 when unmapped
    roomsCreated, \* how many rooms createRoom has made (the next fresh id)
    now,          \* Date.now(), ms since the server started
    handled,      \* the event the last step handled
    sent          \* what the last step put on sockets, in order: [to, message]

\* The state of the server.
serverVars == <<sockets, rooms, playerRooms, roomsCreated, handled, sent>>

VARIABLES
    client,         \* the fields of one SignalingClient of a browser
    webSockets,     \* every WebSocket that client has constructed, in order
    reconnectTimer, \* when the pending timer of attemptReconnect fires, 0 when none is pending
    dispatched,     \* what the last step of the browser ran: [type, socket, wasClean]
    emitted,        \* the events the last step passed to emit(), in order
    outbox          \* what the last step sent on the client's sockets: [socket, message]

\* The state of the SignalingClient.
clientVars == <<client, webSockets, reconnectTimer, dispatched, emitted, outbox>>

VARIABLES
    session,         \* the fields of the WebRTCConnection made on that client
    peerConnections, \* every RTCPeerConnection it has constructed, in order
    dataChannels,    \* every RTCDataChannel it has set up, in order
    heartbeatTimer,  \* when the interval of startHeartbeat fires next, 0 when none runs
    notified,        \* the messages the last step passed to the message listeners
    channelSent,     \* what the last step sent on data channels: [channel, message]
    received,        \* the type of the message the last step got on a data channel, "" for none
    returned         \* what sendMessage returned to the application in the last step, "" for no call

\* The state of the WebRTCConnection.
sessionVars ==
    <<session, peerConnections, dataChannels, heartbeatTimer, notified, channelSent,
      received, returned>>

VARIABLES
    pair,   \* two pages, X and Y, on the server: each a browser with its WebRTCConnection
    wires   \* the messages under way: up[i] from page i to the server, down[i] back

\* The state of two pages and what is between them and the server.
pairVars == <<pair, wires>>

vars == <<sockets, rooms, playerRooms, roomsCreated, now, handled, sent,
          client, webSockets, reconnectTimer, dispatched, emitted, outbox,
          session, peerConnections, dataChannels, heartbeatTimer, notified,
          channelSent, received, returned, pair, wires>>

\* A Player of room.ts; its socket is the connection the id was given to.
Player(playerId, isHost) == [id |-> playerId, socket |-> playerId, isHost |-> isHost]
\* undefined, where a Player is looked for and none is found.
NoPlayer == [id |-> 0, socket |-> 0, isHost |-> FALSE]

Event(kind, playerId, data) == [kind |-> kind, playerId |-> playerId, data |-> data]

(* ---------------------------- RoomManager ----------------------------- *)

\* The first of a set of positions of a Map or array, in insertion order;
\* 0, for undefined, when there is none.
First(positions) ==
    IF positions = {} THEN 0
    ELSE CHOOSE i \in positions : \A j \in positions : i <= j

RemoveAt(seq, i) == SubSeq(seq, 1, i - 1) \o SubSeq(seq, i + 1, Len(seq))

\* createRoom: a room with a fresh id, a drawn code, no players, waiting.
createRoom(rs, n, code, t) ==
    Append(rs, [id |-> n + 1, code |-> code, players |-> <<>>,
                status |-> "waiting", createdAt |-> t])

\* getRoomByCode: the position of the first room with that code, 0 for undefined.
getRoomByCode(rs, code) ==
    First({i \in 1..Len(rs) : rs[i].code = code})

\* getRoom: the position of the room with that id, 0 for undefined.
getRoom(rs, roomId) ==
    First({i \in 1..Len(rs) : rs[i].id = roomId})

\* Map.set on room.players: a known key keeps its place and gets the new value.
MapSet(players, player) ==
    LET i == First({k \in 1..Len(players) : players[k].id = player.id})
    IN  IF i = 0 THEN Append(players, player) ELSE [players EXCEPT ![i] = player]

\* Map.delete on room.players.
MapDelete(players, playerId) ==
    LET i == First({k \in 1..Len(players) : players[k].id = playerId})
    IN  IF i = 0 THEN players ELSE RemoveAt(players, i)

\* addPlayerToRoom with rooms of three: the size test and the status update
\* both moved from 2 to 3.
addPlayerToRoomOfThree(rs, pr, roomId, player) ==
    LET i == getRoom(rs, roomId)
    IN  IF i = 0 THEN [ok |-> FALSE, rooms |-> rs, playerRooms |-> pr]
        ELSE IF Len(rs[i].players) >= 3
        THEN [ok |-> FALSE, rooms |-> rs, playerRooms |-> pr]
        ELSE LET added == MapSet(rs[i].players, player)
                 status == IF Len(added) = 3 THEN "full" ELSE rs[i].status
             IN  [ok |-> TRUE,
                  rooms |-> [rs EXCEPT ![i].players = added, ![i].status = status],
                  playerRooms |-> [pr EXCEPT ![player.id] = roomId]]

\* addPlayerToRoom: false for an unknown room or one with 2 players; else the
\* player is set in the room and mapped to it, and the room is full at 2.
addPlayerToRoom(rs, pr, roomId, player) ==
    LET i == getRoom(rs, roomId)
    IN  IF i = 0 THEN [ok |-> FALSE, rooms |-> rs, playerRooms |-> pr]
        ELSE IF Len(rs[i].players) >= 2
        THEN [ok |-> FALSE, rooms |-> rs, playerRooms |-> pr]
        ELSE LET added == MapSet(rs[i].players, player)
                 status == IF Len(added) = 2 THEN "full" ELSE rs[i].status
             IN  [ok |-> TRUE,
                  rooms |-> [rs EXCEPT ![i].players = added, ![i].status = status],
                  playerRooms |-> [pr EXCEPT ![player.id] = roomId]]

\* A removePlayer that leaves the status of the surviving room as it was.
removePlayerKeepsStatus(rs, pr, playerId) ==
    LET roomId == pr[playerId]
        i == getRoom(rs, roomId)
    IN  IF roomId = 0 THEN [room |-> 0, rooms |-> rs, playerRooms |-> pr]
        ELSE IF i = 0
        THEN [room |-> 0, rooms |-> rs, playerRooms |-> [pr EXCEPT ![playerId] = 0]]
        ELSE LET left == MapDelete(rs[i].players, playerId)
                 unmapped == [pr EXCEPT ![playerId] = 0]
             IN  IF Len(left) = 0
                 THEN [room |-> 0, rooms |-> RemoveAt(rs, i), playerRooms |-> unmapped]
                 ELSE [room |-> roomId,
                       rooms |-> [rs EXCEPT ![i].players = left],
                       playerRooms |-> unmapped]

\* removePlayer: takes the player out of the room playerRooms maps it to;
\* room is the id of the room returned, 0 for undefined.
removePlayer(rs, pr, playerId) ==
    LET roomId == pr[playerId]
        i == getRoom(rs, roomId)
    IN  IF roomId = 0 THEN [room |-> 0, rooms |-> rs, playerRooms |-> pr]
        ELSE IF i = 0
        THEN [room |-> 0, rooms |-> rs, playerRooms |-> [pr EXCEPT ![playerId] = 0]]
        ELSE LET left == MapDelete(rs[i].players, playerId)
                 unmapped == [pr EXCEPT ![playerId] = 0]
             IN  IF Len(left) = 0
                 THEN [room |-> 0, rooms |-> RemoveAt(rs, i), playerRooms |-> unmapped]
                 ELSE [room |-> roomId,
                       rooms |-> [rs EXCEPT ![i].players = left, ![i].status = "waiting"],
                       playerRooms |-> unmapped]

\* getOtherPlayerInRoom: the first player of the room whose id is not playerId.
getOtherPlayerInRoom(rs, roomId, playerId) ==
    LET i == getRoom(rs, roomId)
        k == IF i = 0 THEN 0
             ELSE First({j \in 1..Len(rs[i].players) : rs[i].players[j].id # playerId})
    IN  IF k = 0 THEN NoPlayer ELSE rs[i].players[k]

\* cleanupOldRooms: every room older than maxAge goes, with the mapping of
\* each of its players.
cleanupOldRooms(rs, pr, t, maxAge) ==
    LET Expired(room) == t - room.createdAt > maxAge
        Kept(room) == ~Expired(room)
        gone == {p \in DOMAIN pr :
                    \E i \in 1..Len(rs) :
                        Expired(rs[i]) /\ \E k \in 1..Len(rs[i].players) :
                                            rs[i].players[k].id = p}
    IN  [rooms |-> SelectSeq(rs, Kept),
         playerRooms |-> [p \in DOMAIN pr |-> IF p \in gone THEN 0 ELSE pr[p]]]

(* -------------------------- SignalingServer --------------------------- *)

\* What a handler leaves behind: the registry and the messages it sent.
Outcome(rs, pr, n, out) == [rooms |-> rs, playerRooms |-> pr, roomsCreated |-> n, sent |-> out]

\* sendToSocket: the message goes out only on a socket that is OPEN.
sendToSocket(ss, socket, message) ==
    IF socket # 0 /\ ss[socket] = "open"
    THEN <<[to |-> socket, message |-> message]>>
    ELSE <<>>

\* sendError: an error message with the given text.
sendError(ss, socket, error) ==
    sendToSocket(ss, socket, [NoMessage EXCEPT !.type = "error", !.error = error])

\* handleCreateRoom: a new room with the sender as its host, and the reply.
handleCreateRoom(ss, rs, pr, n, t, code, playerId) ==
    LET created == createRoom(rs, n, code, t)
        roomId == created[Len(created)].id
        added == addPlayerToRoom(created, pr, roomId, Player(playerId, TRUE))
    IN  Outcome(added.rooms, added.playerRooms, n + 1,
                sendToSocket(ss, playerId,
                    [NoMessage EXCEPT !.type = "room-created",
                                      !.roomId = roomId, !.roomCode = code]))

\* handleJoinRoom with the test of room.status left out.
handleJoinRoomNoFullTest(ss, rs, pr, n, playerId, roomCode) ==
    LET i == getRoomByCode(rs, roomCode)
    IN  IF i = 0
        THEN Outcome(rs, pr, n,
                     sendError(ss, playerId, <<"Room with code ", roomCode, " not found">>))
        ELSE LET added == addPlayerToRoom(rs, pr, rs[i].id, Player(playerId, FALSE))
             IN  IF ~added.ok
                 THEN Outcome(rs, pr, n,
                              sendError(ss, playerId, <<"Failed to join room ", roomCode>>))
                 ELSE LET players == added.rooms[i].players
                          h == First({k \in 1..Len(players) : players[k].isHost})
                          host == IF h = 0 THEN NoPlayer ELSE players[h]
                      IN  Outcome(added.rooms, added.playerRooms, n,
                              sendToSocket(ss, playerId,
                                  [NoMessage EXCEPT !.type = "room-joined",
                                                    !.roomId = rs[i].id,
                                                    !.roomCode = rs[i].code])
                              \o sendToSocket(ss, host.socket,
                                  [NoMessage EXCEPT !.type = "player-joined",
                                                    !.playerId = playerId]))

\* handleJoinRoom with the return after the not-found error left out: the
\* handler goes on with room undefined, room.status throws, and the catch of
\* the message handler answers a second time.
handleJoinRoomNoReturn(ss, rs, pr, n, playerId, roomCode) ==
    LET i == getRoomByCode(rs, roomCode)
    IN  IF i = 0
        THEN Outcome(rs, pr, n,
                     sendError(ss, playerId, <<"Room with code ", roomCode, " not found">>)
                     \o sendError(ss, playerId, <<"Invalid message format">>))
        ELSE handleJoinRoomNoFullTest(ss, rs, pr, n, playerId, roomCode)

\* handleJoinRoom: not found, full, failed, or the joiner is added as a
\* non-host, told room-joined, and the room's host is told player-joined.
handleJoinRoom(ss, rs, pr, n, playerId, roomCode) ==
    LET i == getRoomByCode(rs, roomCode)
    IN  IF i = 0
        THEN Outcome(rs, pr, n,
                     sendError(ss, playerId, <<"Room with code ", roomCode, " not found">>))
        ELSE IF rs[i].status = "full"
        THEN Outcome(rs, pr, n,
                     sendError(ss, playerId, <<"Room ", roomCode, " is full">>))
        ELSE LET added == addPlayerToRoom(rs, pr, rs[i].id, Player(playerId, FALSE))
             IN  IF ~added.ok
                 THEN Outcome(rs, pr, n,
                              sendError(ss, playerId, <<"Failed to join room ", roomCode>>))
                 ELSE LET players == added.rooms[i].players
                          h == First({k \in 1..Len(players) : players[k].isHost})
                          host == IF h = 0 THEN NoPlayer ELSE players[h]
                      IN  Outcome(added.rooms, added.playerRooms, n,
                              sendToSocket(ss, playerId,
                                  [NoMessage EXCEPT !.type = "room-joined",
                                                    !.roomId = rs[i].id,
                                                    !.roomCode = rs[i].code])
                              \o sendToSocket(ss, host.socket,
                                  [NoMessage EXCEPT !.type = "player-joined",
                                                    !.playerId = playerId]))

\* handleOffer, answering the sender with an error when the room is missing.
handleOfferAnswersMissing(ss, rs, pr, n, playerId, roomId, offer) ==
    LET otherPlayer == getOtherPlayerInRoom(rs, roomId, playerId)
    IN  IF getRoom(rs, roomId) = 0 \/ otherPlayer = NoPlayer
        THEN Outcome(rs, pr, n, sendError(ss, playerId, <<"Room not found">>))
        ELSE Outcome(rs, pr, n,
                     sendToSocket(ss, otherPlayer.socket,
                         [NoMessage EXCEPT !.type = "offer", !.offer = offer,
                                           !.playerId = playerId]))

\* handleOffer: forwards the offer to the other player of the room, tagged
\* with the sender's id; nothing when the room or the other player is missing.
handleOffer(ss, rs, pr, n, playerId, roomId, offer) ==
    LET otherPlayer == getOtherPlayerInRoom(rs, roomId, playerId)
    IN  IF getRoom(rs, roomId) = 0 \/ otherPlayer = NoPlayer
        THEN Outcome(rs, pr, n, <<>>)
        ELSE Outcome(rs, pr, n,
                     sendToSocket(ss, otherPlayer.socket,
                         [NoMessage EXCEPT !.type = "offer", !.offer = offer,
                                           !.playerId = playerId]))

\* handleAnswer: as handleOffer, for an answer.
handleAnswer(ss, rs, pr, n, playerId, roomId, answer) ==
    LET otherPlayer == getOtherPlayerInRoom(rs, roomId, playerId)
    IN  IF getRoom(rs, roomId) = 0 \/ otherPlayer = NoPlayer
        THEN Outcome(rs, pr, n, <<>>)
        ELSE Outcome(rs, pr, n,
                     sendToSocket(ss, otherPlayer.socket,
                         [NoMessage EXCEPT !.type = "answer", !.answer = answer,
                                           !.playerId = playerId]))

\* handleIceCandidate: as handleOffer, for a candidate.
handleIceCandidate(ss, rs, pr, n, playerId, roomId, candidate) ==
    LET otherPlayer == getOtherPlayerInRoom(rs, roomId, playerId)
    IN  IF getRoom(rs, roomId) = 0 \/ otherPlayer = NoPlayer
        THEN Outcome(rs, pr, n, <<>>)
        ELSE Outcome(rs, pr, n,
                     sendToSocket(ss, otherPlayer.socket,
                         [NoMessage EXCEPT !.type = "ice-candidate",
                                           !.candidate = candidate,
                                           !.playerId = playerId]))

\* handleMessage with the offer branch testing the room id alone.
handleMessageNoOfferTest(ss, rs, pr, n, t, code, playerId, message) ==
    CASE message.type = "create-room" ->
            handleCreateRoom(ss, rs, pr, n, t, code, playerId)
      [] message.type = "join-room" ->
            IF message.roomCode # ""
            THEN handleJoinRoom(ss, rs, pr, n, playerId, message.roomCode)
            ELSE Outcome(rs, pr, n, sendError(ss, playerId, <<"Room code is required">>))
      [] message.type = "offer" ->
            IF message.roomId # 0
            THEN handleOffer(ss, rs, pr, n, playerId, message.roomId, message.offer)
            ELSE Outcome(rs, pr, n,
                         sendError(ss, playerId, <<"Room ID and offer are required">>))
      [] message.type = "answer" ->
            IF message.roomId # 0 /\ message.answer # ""
            THEN handleAnswer(ss, rs, pr, n, playerId, message.roomId, message.answer)
            ELSE Outcome(rs, pr, n,
                         sendError(ss, playerId, <<"Room ID and answer are required">>))
      [] message.type = "ice-candidate" ->
            IF message.roomId # 0 /\ message.candidate # ""
            THEN handleIceCandidate(ss, rs, pr, n, playerId, message.roomId,
                                    message.candidate)
            ELSE Outcome(rs, pr, n,
                         sendError(ss, playerId, <<"Room ID and candidate are required">>))
      [] OTHER ->
            Outcome(rs, pr, n,
                    sendError(ss, playerId,
                        <<"Unknown message type: ",
                          IF message.type = "" THEN "undefined" ELSE message.type>>))

\* handleMessage: the switch on message.type, with the tests of the fields
\* each type needs.  code is the room code createRoom would draw.
handleMessage(ss, rs, pr, n, t, code, playerId, message) ==
    CASE message.type = "create-room" ->
            handleCreateRoom(ss, rs, pr, n, t, code, playerId)
      [] message.type = "join-room" ->
            IF message.roomCode # ""
            THEN handleJoinRoom(ss, rs, pr, n, playerId, message.roomCode)
            ELSE Outcome(rs, pr, n, sendError(ss, playerId, <<"Room code is required">>))
      [] message.type = "offer" ->
            IF message.roomId # 0 /\ message.offer # ""
            THEN handleOffer(ss, rs, pr, n, playerId, message.roomId, message.offer)
            ELSE Outcome(rs, pr, n,
                         sendError(ss, playerId, <<"Room ID and offer are required">>))
      [] message.type = "answer" ->
            IF message.roomId # 0 /\ message.answer # ""
            THEN handleAnswer(ss, rs, pr, n, playerId, message.roomId, message.answer)
            ELSE Outcome(rs, pr, n,
                         sendError(ss, playerId, <<"Room ID and answer are required">>))
      [] message.type = "ice-candidate" ->
            IF message.roomId # 0 /\ message.candidate # ""
            THEN handleIceCandidate(ss, rs, pr, n, playerId, message.roomId,
                                    message.candidate)
            ELSE Outcome(rs, pr, n,
                         sendError(ss, playerId, <<"Room ID and candidate are required">>))
      [] OTHER ->
            Outcome(rs, pr, n,
                    sendError(ss, playerId,
                        <<"Unknown message type: ",
                          IF message.type = "" THEN "undefined" ELSE message.type>>))

\* socket.on('message'): JSON.parse and handleMessage in a try; what is
\* thrown is answered with 'Invalid message format'.
onMessage(ss, rs, pr, n, t, code, playerId, data) ==
    IF data.parses
    THEN handleMessage(ss, rs, pr, n, t, code, playerId, data.value)
    ELSE Outcome(rs, pr, n, sendError(ss, playerId, <<"Invalid message format">>))

\* socket.on('close'): the player is removed, and the other player of the
\* room that is left is told player-disconnected.
onClose(ss, rs, pr, n, playerId) ==
    LET removed == removePlayer(rs, pr, playerId)
        otherPlayer == getOtherPlayerInRoom(removed.rooms, removed.room, playerId)
    IN  IF removed.room = 0 \/ otherPlayer = NoPlayer
        THEN Outcome(removed.rooms, removed.playerRooms, n, <<>>)
        ELSE Outcome(removed.rooms, removed.playerRooms, n,
                     sendToSocket(ss, otherPlayer.socket,
                         [NoMessage EXCEPT !.type = "player-disconnected",
                                           !.playerId = playerId]))

(* --------------------------- SignalingClient --------------------------- *)

\* private maxReconnectAttempts = 5.
maxReconnectAttempts == 5
\* The delay of the connection timeout of connect().
connectionTimeoutMs == 10000

\* The SignalingMessage of the client: the server's, with the properties of
\* the reconnection events, 0 when absent.
SignalingMessage(m, attempt, maxAttempts, delay) ==
    [type |-> m.type, roomCode |-> m.roomCode, roomId |-> m.roomId,
     playerId |-> m.playerId, offer |-> m.offer, answer |-> m.answer,
     candidate |-> m.candidate, error |-> m.error,
     attempt |-> attempt, maxAttempts |-> maxAttempts, delay |-> delay]

\* A message that only has its type.
OfType(type) == [NoMessage EXCEPT !.type = type]

\* new SignalingClient().
NewClient ==
    [socket |-> 0, playerId |-> 0, roomId |-> 0, roomCode |-> "",
     reconnectAttempts |-> 0, reconnectTimeout |-> 0]

\* new WebSocket(serverUrl) at time t, with what connect() attaches to it:
\* the connection timeout (the time it fires at, 0 once cleared or fired) and
\* the promise; reconnect tells that the promise is the one the timer of
\* attemptReconnect waits on.  opened and established record that the socket
\* has opened and that connection-established has arrived on it.
WebSocket(t, reconnect) ==
    [readyState |-> "CONNECTING", connectionTimeout |-> t + connectionTimeoutMs,
     promise |-> "pending", reconnect |-> reconnect,
     opened |-> FALSE, established |-> FALSE]

\* The browser: the client, its sockets, its reconnect timer, and what the
\* running handler has emitted and sent so far.
Browser(c, ws, timer, ev, out) ==
    [client |-> c, webSockets |-> ws, reconnectTimer |-> timer,
     emitted |-> ev, outbox |-> out]

\* WebSocket.close() on socket s: a socket that is connecting or open starts
\* closing; null (0) stands for no socket.
close(ws, s) ==
    IF s # 0 /\ ws[s].readyState \in {"CONNECTING", "OPEN"}
    THEN [ws EXCEPT ![s].readyState = "CLOSING"]
    ELSE ws

\* clearTimeout(connectionTimeout) of socket s.
clearConnectionTimeout(ws, s) == [ws EXCEPT ![s].connectionTimeout = 0]

\* resolve() and reject() of the promise of socket s: a settled promise stays
\* as it is.
settle(ws, s, how) ==
    IF ws[s].promise = "pending" THEN [ws EXCEPT ![s].promise = how] ELSE ws

\* emit(event, message): the callbacks registered for the event are called
\* with the message.
emit(b, event, message) ==
    [b EXCEPT !.emitted = Append(@, [event |-> event, message |-> message])]

\* send(message): only on an open socket.
send(b, message) ==
    IF b.client.socket = 0 \/ b.webSockets[b.client.socket].readyState # "OPEN"
    THEN b
    ELSE [b EXCEPT !.outbox = Append(@, [socket |-> b.client.socket,
                                         message |-> message])]

\* createRoom().
createRoomRequest(b) == send(b, OfType("create-room"))

\* joinRoom(roomCode).
joinRoom(b, roomCode) ==
    send(b, [NoMessage EXCEPT !.type = "join-room", !.roomCode = roomCode])

\* connect(serverUrl) at time t: an existing socket is closed and dropped, a
\* new one is made and becomes this.socket.
connect(b, t, reconnect) ==
    LET ws == Append(close(b.webSockets, b.client.socket), WebSocket(t, reconnect))
    IN  [b EXCEPT !.webSockets = ws, !.client.socket = Len(ws)]

\* attemptReconnect with a delay that grows by one second per attempt.
attemptReconnectLinear(b, t) ==
    IF b.client.reconnectAttempts >= maxReconnectAttempts
    THEN emit(b, "max-reconnect-attempts",
              SignalingMessage(OfType("max-reconnect-attempts"), 0, 0, 0))
    ELSE LET delay == (b.client.reconnectAttempts + 1) * 1000
             e == emit(b, "reconnecting",
                       SignalingMessage(OfType("reconnecting"),
                                        b.client.reconnectAttempts + 1,
                                        maxReconnectAttempts, delay))
         IN  [e EXCEPT !.client.reconnectTimeout = 1, !.reconnectTimer = t + delay]

\* attemptReconnect that gives up one attempt later.
attemptReconnectOneMore(b, t) ==
    IF b.client.reconnectAttempts > maxReconnectAttempts
    THEN emit(b, "max-reconnect-attempts",
              SignalingMessage(OfType("max-reconnect-attempts"), 0, 0, 0))
    ELSE LET delay == (2 ^ b.client.reconnectAttempts) * 1000
             e == emit(b, "reconnecting",
                       SignalingMessage(OfType("reconnecting"),
                                        b.client.reconnectAttempts + 1,
                                        maxReconnectAttempts, delay))
         IN  [e EXCEPT !.client.reconnectTimeout = 1, !.reconnectTimer = t + delay]

\* attemptReconnect(serverUrl) at time t.
attemptReconnect(b, t) ==
    IF b.client.reconnectAttempts >= maxReconnectAttempts
    THEN emit(b, "max-reconnect-attempts",
              SignalingMessage(OfType("max-reconnect-attempts"), 0, 0, 0))
    ELSE LET delay == (2 ^ b.client.reconnectAttempts) * 1000
             e == emit(b, "reconnecting",
                       SignalingMessage(OfType("reconnecting"),
                                        b.client.reconnectAttempts + 1,
                                        maxReconnectAttempts, delay))
         IN  [e EXCEPT !.client.reconnectTimeout = 1, !.reconnectTimer = t + delay]

\* The callback of the timer of attemptReconnect, up to the call of connect.
reconnectCallback(b, t) ==
    connect([b EXCEPT !.client.reconnectAttempts = @ + 1, !.reconnectTimer = 0],
            t, TRUE)

\* The then() of a reconnect that asks for the first room code there is.
reconnectedToFirst(b) ==
    LET e == emit(b, "reconnected", SignalingMessage(OfType("reconnected"), 0, 0, 0))
    IN  IF e.client.roomCode # "" THEN joinRoom(e, "AB12CD") ELSE e

\* The then() of the promise the timer of attemptReconnect waits on.
reconnected(b) ==
    LET e == emit(b, "reconnected", SignalingMessage(OfType("reconnected"), 0, 0, 0))
    IN  IF e.client.roomCode # "" THEN joinRoom(e, e.client.roomCode) ELSE e

\* An onopen that leaves reconnectAttempts as it is.
onopenKeepsCount(b, s) ==
    LET o == [b EXCEPT !.webSockets[s].readyState = "OPEN",
                       !.webSockets[s].opened = TRUE]
        r == [o EXCEPT !.webSockets = settle(clearConnectionTimeout(@, s), s, "resolved")]
    IN  IF o.client.socket = 0 THEN o
        ELSE IF o.webSockets[s].reconnect /\ o.webSockets[s].promise = "pending"
             THEN reconnected(r)
             ELSE r

\* socket.onopen of socket s.  The handler reads this.socket!.readyState
\* first, which throws when this.socket is null.
onopen(b, s) ==
    LET o == [b EXCEPT !.webSockets[s].readyState = "OPEN",
                       !.webSockets[s].opened = TRUE]
        r == [o EXCEPT !.webSockets = settle(clearConnectionTimeout(@, s), s, "resolved"),
                       !.client.reconnectAttempts = 0]
    IN  IF o.client.socket = 0 THEN o
        ELSE IF o.webSockets[s].reconnect /\ o.webSockets[s].promise = "pending"
             THEN reconnected(r)
             ELSE r

\* handleMessage(message).
clientHandleMessage(b, m) ==
    LET message == SignalingMessage(m, 0, 0, 0)
        stored == [b EXCEPT
                     !.client.playerId = IF m.playerId # 0 THEN m.playerId ELSE @,
                     !.client.roomId = IF m.roomId # 0 THEN m.roomId ELSE @,
                     !.client.roomCode = IF m.roomCode # "" THEN m.roomCode ELSE @]
        first == IF m.type = "connection-established"
                 THEN emit(stored, "connected", message)
                 ELSE IF m.type \in {"room-created", "room-joined", "player-joined",
                                     "player-disconnected", "error"}
                      THEN emit(stored, m.type, message)
                      ELSE stored
    IN  emit(first, m.type, message)

\* socket.onmessage of socket s: text that does not parse is logged.
onmessage(b, s, data) ==
    IF ~data.parses THEN b
    ELSE clientHandleMessage(
             [b EXCEPT !.webSockets[s].established =
                           @ \/ data.value.type = "connection-established"],
             data.value)

\* onclose that goes on when this.socket is null.
oncloseOfNull(b, t, s, wasClean) ==
    LET o == [b EXCEPT !.webSockets[s].readyState = "CLOSED"]
        c == [o EXCEPT !.webSockets = clearConnectionTimeout(@, s)]
    IN  IF c.client.playerId # 0 THEN attemptReconnect(c, t)
        ELSE IF ~wasClean THEN [c EXCEPT !.webSockets = settle(@, s, "rejected")]
        ELSE c

\* socket.onclose of socket s at time t.  The handler reads
\* this.socket!.readyState first, which throws when this.socket is null.
onclose(b, t, s, wasClean) ==
    LET o == [b EXCEPT !.webSockets[s].readyState = "CLOSED"]
        c == [o EXCEPT !.webSockets = clearConnectionTimeout(@, s)]
    IN  IF o.client.socket = 0 THEN o
        ELSE IF c.client.playerId # 0 THEN attemptReconnect(c, t)
        ELSE IF ~wasClean THEN [c EXCEPT !.webSockets = settle(@, s, "rejected")]
        ELSE c

\* The callback of the connection timeout of socket s: it tests and closes
\* this.socket, and rejects the promise of the connect() that set it.
connectionTimeout(b, s) ==
    LET f == [b EXCEPT !.webSockets[s].connectionTimeout = 0]
        current == f.client.socket
    IN  IF current # 0 /\ f.webSockets[current].readyState # "OPEN"
        THEN [f EXCEPT !.webSockets = settle(close(@, current), s, "rejected")]
        ELSE f

\* disconnect().
disconnect(b) ==
    LET d == IF b.client.socket # 0
             THEN [b EXCEPT !.webSockets = close(@, b.client.socket),
                            !.client.socket = 0]
             ELSE b
    IN  IF d.client.reconnectTimeout # 0
        THEN [d EXCEPT !.client.reconnectTimeout = 0, !.reconnectTimer = 0]
        ELSE d

(* --------------------------- WebRTCConnection -------------------------- *)

\* The period of the interval of startHeartbeat.
heartbeatIntervalMs == 2000
\* The age of the last HEARTBEAT_ACK beyond which a tick gives the peer up.
heartbeatTimeoutMs == 10000

\* new WebRTCConnection(signalingClient), before any event.
NewSession ==
    [peerConnection |-> 0, dataChannel |-> 0, remoteDataChannel |-> 0,
     isHost |-> FALSE, isConnected |-> FALSE, heartbeatInterval |-> 0,
     lastHeartbeatAck |-> 0, reconnecting |-> FALSE]

\* new RTCPeerConnection(RTC_CONFIG).  pending is the negotiation that waits
\* on it ("createOffer" or "handleOffer", with the offer to answer); local
\* and remote are the kinds of the descriptions set on it; sentOffers and
\* sentAnswers count what the signaling client sent for it.
RTCPeerConnection ==
    [closed |-> FALSE, iceConnectionState |-> "new", pending |-> "", offer |-> "",
     local |-> "", remote |-> "", sentOffers |-> 0, sentAnswers |-> 0]

\* An RTCDataChannel of peer connection pc set up by setupDataChannel.
\* "closing" also stands for a channel closed by the close() of its peer
\* connection whose close event the browser has not delivered.
RTCDataChannel(pc) == [pc |-> pc, readyState |-> "connecting"]

\* The page: the browser of the signaling client, with the WebRTCConnection,
\* its peer connections, channels and heartbeat timer, and what the running
\* handler has passed to the message listeners and sent on channels so far.
Page(b, w, pcs, chs, hb, msgs, out) ==
    [browser |-> b, session |-> w, peerConnections |-> pcs, dataChannels |-> chs,
     heartbeatTimer |-> hb, notified |-> msgs, channelSent |-> out]

\* A GameMessage; timestamp and sequence are left out.
GameMessage(type, playerId, event) == [type |-> type, playerId |-> playerId, event |-> event]

\* notifyMessageListeners(message).
notifyMessageListeners(p, message) == [p EXCEPT !.notified = Append(@, message)]

\* stopHeartbeat(); heartbeatTimeout is never set.
stopHeartbeat(p) ==
    IF p.session.heartbeatInterval # 0
    THEN [p EXCEPT !.session.heartbeatInterval = 0, !.heartbeatTimer = 0]
    ELSE p

\* startHeartbeat() at time t.
startHeartbeat(p, t) ==
    [stopHeartbeat(p) EXCEPT !.session.lastHeartbeatAck = t,
                             !.session.heartbeatInterval = 1,
                             !.heartbeatTimer = t + heartbeatIntervalMs]

\* RTCDataChannel.close() on channel c, 0 for no channel.
closeChannel(chs, c) ==
    IF c # 0 /\ chs[c].readyState \in {"connecting", "open"}
    THEN [chs EXCEPT ![c].readyState = "closing"]
    ELSE chs

\* RTCPeerConnection.close() on peer connection k: it and its channels are
\* closed, and what waits on it never completes.
closeConnection(p, k) ==
    [p EXCEPT !.peerConnections[k].closed = TRUE,
              !.peerConnections[k].iceConnectionState = "closed",
              !.peerConnections[k].pending = "",
              !.dataChannels =
                  [c \in 1..Len(@) |->
                      IF @[c].pc = k /\ @[c].readyState \in {"connecting", "open"}
                      THEN [@[c] EXCEPT !.readyState = "closing"]
                      ELSE @[c]]]

\* closePeerConnection().
closePeerConnection(p) ==
    LET s == stopHeartbeat(p)
        d == [s EXCEPT !.dataChannels = closeChannel(@, s.session.dataChannel),
                       !.session.dataChannel = 0,
                       !.session.remoteDataChannel = 0]
        c == IF d.session.peerConnection # 0
             THEN [closeConnection(d, d.session.peerConnection)
                      EXCEPT !.session.peerConnection = 0]
             ELSE d
    IN  [c EXCEPT !.session.isConnected = FALSE]

\* A createPeerConnection() that leaves the connection it replaces open.
createPeerConnectionKeepsOld(p) ==
    LET n == [p EXCEPT !.peerConnections = Append(@, RTCPeerConnection),
                       !.session.peerConnection = Len(p.peerConnections) + 1]
    IN  IF n.session.isHost
        THEN [n EXCEPT !.dataChannels = Append(@, RTCDataChannel(n.session.peerConnection)),
                       !.session.dataChannel = Len(n.dataChannels) + 1]
        ELSE n

\* createPeerConnection(): the host also creates the data channel and sets
\* it up.
createPeerConnection(p) ==
    LET c == closePeerConnection(p)
        n == [c EXCEPT !.peerConnections = Append(@, RTCPeerConnection),
                       !.session.peerConnection = Len(c.peerConnections) + 1]
    IN  IF n.session.isHost
        THEN [n EXCEPT !.dataChannels = Append(@, RTCDataChannel(n.session.peerConnection)),
                       !.session.dataChannel = Len(n.dataChannels) + 1]
        ELSE n

\* createOffer(), up to its first await.
createOffer(p) ==
    IF p.session.peerConnection = 0 THEN p
    ELSE [p EXCEPT !.peerConnections[p.session.peerConnection].pending = "createOffer"]

\* handleOffer(offer) of the WebRTCConnection, up to its first await.
sessionHandleOffer(p, offer) ==
    IF p.session.peerConnection = 0 THEN p
    ELSE [p EXCEPT !.peerConnections[p.session.peerConnection].pending = "handleOffer",
                   !.peerConnections[p.session.peerConnection].offer = offer]

\* handleAnswer(answer) of the WebRTCConnection: setRemoteDescription takes
\* the answer on a connection that has its offer set and no answer yet, and
\* fails otherwise, which is logged.
sessionHandleAnswer(p, answer) ==
    LET k == p.session.peerConnection
    IN  IF k # 0 /\ p.peerConnections[k].local = "offer" /\ p.peerConnections[k].remote = ""
        THEN [p EXCEPT !.peerConnections[k].remote = "answer"]
        ELSE p

\* handleIceCandidate(candidate) of the WebRTCConnection: addIceCandidate
\* changes nothing the model holds.
sessionHandleIceCandidate(p, candidate) == p

\* sendOffer(offer) of the signaling client.
sendOffer(b, offer) ==
    IF b.client.roomId = 0 THEN b
    ELSE send(b, [NoMessage EXCEPT !.type = "offer", !.roomId = b.client.roomId,
                                   !.offer = offer])

\* A sendAnswer(answer) that hands nothing to the socket.
sendAnswerNowhere(b, answer) == b

\* sendAnswer(answer) of the signaling client.
sendAnswer(b, answer) ==
    IF b.client.roomId = 0 THEN b
    ELSE send(b, [NoMessage EXCEPT !.type = "answer", !.roomId = b.client.roomId,
                                   !.answer = answer])

\* What follows the awaits of createOffer() and handleOffer() on peer
\* connection k, once the browser has made and set the descriptions: the
\* offer or the answer is handed to the signaling client.
negotiated(p, k) ==
    LET pc == p.peerConnections[k]
        b == IF pc.pending = "createOffer"
             THEN sendOffer(p.browser, "sdp-a")
             ELSE sendAnswer(p.browser, "sdp-b")
        went == Len(b.outbox) - Len(p.browser.outbox)
    IN  IF pc.pending = "createOffer"
        THEN [p EXCEPT !.browser = b,
                       !.peerConnections[k].pending = "",
                       !.peerConnections[k].local = "offer",
                       !.peerConnections[k].sentOffers = @ + went]
        ELSE [p EXCEPT !.browser = b,
                       !.peerConnections[k].pending = "",
                       !.peerConnections[k].remote = "offer",
                       !.peerConnections[k].local = "answer",
                       !.peerConnections[k].sentAnswers = @ + went]

\* A restartConnection() that builds nothing.
restartConnectionNever(p) == p

\* A restartConnection() that either role initiates.
restartConnectionAnyRole(p) == createOffer(createPeerConnection(p))

\* restartConnection().
restartConnection(p) ==
    IF p.session.isHost THEN createOffer(createPeerConnection(p)) ELSE p

\* A handleDisconnection() after which either role builds a replacement.
handleDisconnectionRestarts(p) ==
    LET s == stopHeartbeat([p EXCEPT !.session.isConnected = FALSE])
        n == notifyMessageListeners(s, GameMessage("GAME_STATE", "system", "disconnected"))
    IN  IF ~n.session.reconnecting THEN createOffer(createPeerConnection(n)) ELSE n

\* A handleDisconnection() that leaves the heartbeat interval running.
handleDisconnectionKeepsBeating(p) ==
    LET s == [p EXCEPT !.session.isConnected = FALSE]
        n == notifyMessageListeners(s, GameMessage("GAME_STATE", "system", "disconnected"))
    IN  IF ~n.session.reconnecting THEN restartConnection(n) ELSE n

\* handleDisconnection().
handleDisconnection(p) ==
    LET s == stopHeartbeat([p EXCEPT !.session.isConnected = FALSE])
        n == notifyMessageListeners(s, GameMessage("GAME_STATE", "system", "disconnected"))
    IN  IF ~n.session.reconnecting THEN restartConnection(n) ELSE n

\* handleSuccessfulReconnection().
handleSuccessfulReconnection(p) ==
    notifyMessageListeners(p, GameMessage("GAME_STATE", "system", "reconnected"))

\* A sendMessage(message) that does not look at isConnected.
sendMessageUnconnected(p, message) ==
    LET channel == IF p.session.isHost THEN p.session.dataChannel
                   ELSE p.session.remoteDataChannel
    IN  IF channel = 0 \/ p.dataChannels[channel].readyState # "open" THEN p
        ELSE [p EXCEPT !.channelSent = Append(@, [channel |-> channel,
                                                  message |-> message])]

\* sendMessage(message): only when connected, on the open channel of the
\* role.
sendMessage(p, message) ==
    LET channel == IF p.session.isHost THEN p.session.dataChannel
                   ELSE p.session.remoteDataChannel
    IN  IF ~p.session.isConnected THEN p
        ELSE IF channel = 0 \/ p.dataChannels[channel].readyState # "open" THEN p
        ELSE [p EXCEPT !.channelSent = Append(@, [channel |-> channel,
                                                  message |-> message])]

\* sendMessage(message) when the send() of the channel throws or not: the
\* exception is caught.
sendMessageThrowing(p, message, throws) ==
    IF throws THEN p ELSE sendMessage(p, message)

\* What sendMessage(message) returns.
sendMessageReturns(p, throws) ==
    LET channel == IF p.session.isHost THEN p.session.dataChannel
                   ELSE p.session.remoteDataChannel
    IN  IF ~p.session.isConnected THEN FALSE
        ELSE IF channel = 0 \/ p.dataChannels[channel].readyState # "open" THEN FALSE
        ELSE ~throws

\* The listeners setupSignalingListeners registers, called with one event
\* the signaling client emits.
listener(p, e) ==
    CASE e.event = "player-joined" ->
             createOffer(createPeerConnection([p EXCEPT !.session.isHost = TRUE]))
      [] e.event = "offer" ->
             sessionHandleOffer(createPeerConnection([p EXCEPT !.session.isHost = FALSE]),
                                e.message.offer)
      [] e.event = "answer" -> sessionHandleAnswer(p, e.message.answer)
      [] e.event = "ice-candidate" -> sessionHandleIceCandidate(p, e.message.candidate)
      [] e.event = "player-disconnected" -> handleDisconnection(p)
      [] e.event = "reconnecting" -> [p EXCEPT !.session.reconnecting = TRUE]
      [] e.event = "reconnected" ->
             LET r == [p EXCEPT !.session.reconnecting = FALSE]
             IN  IF r.session.isConnected THEN restartConnection(r) ELSE r
      [] OTHER -> p

\* The listeners called with the events of a handler of the signaling
\* client, in the order it emitted them.
RECURSIVE listen(_, _)
listen(p, events) ==
    IF events = <<>> THEN p
    ELSE listen(listener(p, Head(events)), Tail(events))

\* peerConnection.oniceconnectionstatechange of peer connection k, whose
\* state has become state; the handler reads the state of this.peerConnection.
oniceconnectionstatechange(p, k, state) ==
    LET i == [p EXCEPT !.peerConnections[k].iceConnectionState = state]
        current == i.session.peerConnection
        read == IF current = 0 THEN "" ELSE i.peerConnections[current].iceConnectionState
    IN  IF read \in {"disconnected", "failed"} THEN handleDisconnection(i)
        ELSE IF read = "connected" THEN [i EXCEPT !.session.isConnected = TRUE]
        ELSE i

\* peerConnection.ondatachannel of peer connection k.
ondatachannel(p, k) ==
    [p EXCEPT !.dataChannels = Append(@, RTCDataChannel(k)),
              !.session.remoteDataChannel = Len(p.dataChannels) + 1]

\* channel.onopen of channel c at time t.
channelOnOpen(p, t, c) ==
    LET o == [p EXCEPT !.dataChannels[c].readyState = "open",
                       !.session.isConnected = TRUE]
        h == startHeartbeat(o, t)
    IN  IF h.session.reconnecting
        THEN handleSuccessfulReconnection([h EXCEPT !.session.reconnecting = FALSE])
        ELSE h

\* channel.onclose of channel c.
channelOnClose(p, c) ==
    stopHeartbeat([p EXCEPT !.dataChannels[c].readyState = "closed",
                            !.session.isConnected = FALSE])

\* A channel.onmessage that forwards every message.
channelOnMessageForwards(p, t, c, message) == notifyMessageListeners(p, message)

\* channel.onmessage of channel c at time t.
channelOnMessage(p, t, c, message) ==
    IF message.type = "HEARTBEAT"
    THEN sendMessage(p, GameMessage("HEARTBEAT_ACK", p.browser.client.playerId, ""))
    ELSE IF message.type = "HEARTBEAT_ACK"
    THEN [p EXCEPT !.session.lastHeartbeatAck = t]
    ELSE notifyMessageListeners(p, message)

\* The callback of the interval of startHeartbeat, at time t.
heartbeat(p, t) ==
    LET n == [p EXCEPT !.heartbeatTimer = t + heartbeatIntervalMs]
        s == sendMessage(n, GameMessage("HEARTBEAT", n.browser.client.playerId, ""))
    IN  IF t - s.session.lastHeartbeatAck > heartbeatTimeoutMs
        THEN handleDisconnection(s)
        ELSE s

\* A page before anything has run on it.
NewPage ==
    Page(Browser(NewClient, <<>>, 0, <<>>, <<>>), NewSession, <<>>, <<>>, 0, <<>>, <<>>)

\* What a step of the browser runs: a call of the application, the handler
\* of an event of a socket (with the wasClean of a close event), the callback
\* of a timer, or nothing while time passes.
Dispatched(type, s, wasClean) == [type |-> type, socket |-> s, wasClean |-> wasClean]

(* ------------------------------ actions ------------------------------- *)

Init ==
    /\ sockets = [p \in PlayerIds |-> "none"]
    /\ rooms = <<>>
    /\ playerRooms = [p \in PlayerIds |-> 0]
    /\ roomsCreated = 0
    /\ now = 0
    /\ handled = Event("start", 0, NotJson)
    /\ sent = <<>>
    /\ client = NewClient
    /\ webSockets = <<>>
    /\ reconnectTimer = 0
    /\ dispatched = Dispatched("", 0, FALSE)
    /\ emitted = <<>>
    /\ outbox = <<>>
    /\ session = NewSession
    /\ peerConnections = <<>>
    /\ dataChannels = <<>>
    /\ heartbeatTimer = 0
    /\ notified = <<>>
    /\ channelSent = <<>>
    /\ received = ""
    /\ returned = ""
    /\ pair = <<NewPage, NewPage>>
    /\ wires = [up |-> <<<<>>, <<>>>>, down |-> <<<<>>, <<>>>>]

Apply(outcome) ==
    /\ rooms' = outcome.rooms
    /\ playerRooms' = outcome.playerRooms
    /\ roomsCreated' = outcome.roomsCreated
    /\ sent' = outcome.sent

\* wss.on('connection'): the next connection gets a fresh playerId and is
\* sent connection-established.
Connection ==
    \E p \in PlayerIds :
        /\ sockets[p] = "none"
        /\ \A q \in PlayerIds : q < p => sockets[q] # "none"
        /\ sockets' = [sockets EXCEPT ![p] = "open"]
        /\ handled' = Event("connection", p, NotJson)
        /\ sent' = sendToSocket(sockets', p,
                       [NoMessage EXCEPT !.type = "connection-established",
                                         !.playerId = p])
        /\ UNCHANGED <<rooms, playerRooms, roomsCreated, now>>
        /\ UNCHANGED <<clientVars, sessionVars, pairVars>>

\* The message makes createRoom draw a room code.
CreatesRoom(data) == data.parses /\ data.value.type = "create-room"

\* One inbound message of an open connection, drawn from the set D, handled
\* to completion.
Receive(D) ==
    \E p \in PlayerIds, data \in D :
      \E code \in IF CreatesRoom(data) THEN RoomCodes ELSE {""} :
        /\ sockets[p] = "open"
        /\ CreatesRoom(data) => roomsCreated < MaxRooms
        /\ handled' = Event("message", p, data)
        /\ Apply(onMessage(sockets, rooms, playerRooms, roomsCreated, now, code, p, data))
        /\ UNCHANGED <<sockets, now>>
        /\ UNCHANGED <<clientVars, sessionVars, pairVars>>

RegistryMessage == Receive(RegistryData)

RelayMessage == Receive(RelayData)

ProtocolMessage == Receive(ProtocolData)

\* The socket of an open connection closes.
Close ==
    \E p \in PlayerIds :
        /\ sockets[p] = "open"
        /\ sockets' = [sockets EXCEPT ![p] = "closed"]
        /\ handled' = Event("close", p, NotJson)
        /\ Apply(onClose(sockets', rooms, playerRooms, roomsCreated, p))
        /\ UNCHANGED now
        /\ UNCHANGED <<clientVars, sessionVars, pairVars>>

\* The hourly interval of the constructor runs cleanupOldRooms().
Cleanup ==
    /\ now >= cleanupIntervalMs
    /\ handled' = Event("cleanup", 0, NotJson)
    /\ LET swept == cleanupOldRooms(rooms, playerRooms, now, maxAgeMs)
       IN  Apply(Outcome(swept.rooms, swept.playerRooms, roomsCreated, <<>>))
    /\ UNCHANGED <<sockets, now>>
    /\ UNCHANGED <<clientVars, sessionVars, pairVars>>

\* Time passes.
Tick ==
    /\ now < MaxTicks * TickMs
    /\ now' = now + TickMs
    /\ handled' = Event("tick", 0, NotJson)
    /\ sent' = <<>>
    /\ UNCHANGED <<sockets, rooms, playerRooms, roomsCreated>>
    /\ UNCHANGED <<clientVars, sessionVars, pairVars>>

\* The registry: connections, create-room and join-room, closes, the sweep.
Next == Connection \/ RegistryMessage \/ Close \/ Cleanup \/ Tick

Spec == Init /\ [][Next]_vars

\* The relay of negotiation messages between the players the registry pairs.
NextRelay == Connection \/ RegistryMessage \/ RelayMessage \/ Close

SpecRelay == Init /\ [][NextRelay]_vars

\* The answers to messages the protocol does not accept.
NextProtocol == Connection \/ RegistryMessage \/ ProtocolMessage \/ Close

SpecProtocol == Init /\ [][NextProtocol]_vars

(* ----------------------- SignalingClient actions ----------------------- *)

\* The browser as a handler finds it, with nothing emitted or sent yet.
Before == Browser(client, webSockets, reconnectTimer, <<>>, <<>>)

\* The browser as a handler of the signaling client leaves it, when no
\* listener is registered.
Run(b, type, s, wasClean) ==
    /\ dispatched' = Dispatched(type, s, wasClean)
    /\ client' = b.client
    /\ webSockets' = b.webSockets
    /\ reconnectTimer' = b.reconnectTimer
    /\ emitted' = b.emitted
    /\ outbox' = b.outbox
    /\ notified' = <<>>
    /\ channelSent' = <<>>
    /\ received' = ""
    /\ returned' = ""
    /\ UNCHANGED <<session, peerConnections, dataChannels, heartbeatTimer>>
    /\ UNCHANGED <<serverVars, pairVars>>

\* The times at which the pending timers fire.
Deadlines ==
    ({reconnectTimer, heartbeatTimer}
     \cup {webSockets[s].connectionTimeout : s \in 1..Len(webSockets)}) \ {0}

\* The application calls connect(serverUrl), once.
AppConnect ==
    /\ webSockets = <<>>
    /\ Run(connect(Before, now, FALSE), "connect", 0, FALSE)
    /\ UNCHANGED now

\* The application calls disconnect().
AppDisconnect ==
    /\ webSockets # <<>>
    /\ Run(disconnect(Before), "disconnect", 0, FALSE)
    /\ UNCHANGED now

\* The application calls createRoom() or joinRoom(roomCode).
AppRoom ==
    /\ client.socket # 0
    /\ webSockets[client.socket].readyState = "OPEN"
    /\ \/ Run(createRoomRequest(Before), "createRoom", 0, FALSE)
       \/ \E roomCode \in ClientCodes : Run(joinRoom(Before, roomCode), "joinRoom", 0, FALSE)
    /\ UNCHANGED now

\* A connecting socket opens.
Open ==
    \E s \in 1..Len(webSockets) :
        /\ webSockets[s].readyState = "CONNECTING"
        /\ Run(onopen(Before, s), "open", s, FALSE)
        /\ UNCHANGED now

\* A message arrives on an open socket.
Message ==
    \E s \in 1..Len(webSockets), data \in InboundData :
        /\ webSockets[s].readyState = "OPEN"
        /\ Run(onmessage(Before, s, data), "message", s, FALSE)
        /\ UNCHANGED now

\* A socket closes: the connection fails or drops, or the closing that
\* close() started completes.  A socket that never opened does not close
\* cleanly.
CloseEvent ==
    \E s \in 1..Len(webSockets) :
      \E wasClean \in IF webSockets[s].opened THEN BOOLEAN ELSE {FALSE} :
        /\ webSockets[s].readyState # "CLOSED"
        /\ Run(onclose(Before, now, s, wasClean), "close", s, wasClean)
        /\ UNCHANGED now

\* The connection timeout of a socket fires.
ConnectionTimeout ==
    \E s \in 1..Len(webSockets) :
        /\ webSockets[s].connectionTimeout # 0
        /\ webSockets[s].connectionTimeout <= now
        /\ Run(connectionTimeout(Before, s), "connectionTimeout", s, FALSE)
        /\ UNCHANGED now

\* The timer of attemptReconnect fires.
ReconnectTimeout ==
    /\ reconnectTimer # 0
    /\ reconnectTimer <= now
    /\ Len(webSockets) < MaxSockets
    /\ Run(reconnectCallback(Before, now), "reconnectTimeout", 0, FALSE)
    /\ UNCHANGED now

\* Time passes, up to the next timer.
Advance ==
    /\ Deadlines # {}
    /\ \A d \in Deadlines : d > now
    /\ now' = CHOOSE d \in Deadlines : \A e \in Deadlines : d <= e
    /\ dispatched' = Dispatched("", 0, FALSE)
    /\ emitted' = <<>>
    /\ outbox' = <<>>
    /\ notified' = <<>>
    /\ channelSent' = <<>>
    /\ received' = ""
    /\ returned' = ""
    /\ UNCHANGED <<client, webSockets, reconnectTimer>>
    /\ UNCHANGED <<session, peerConnections, dataChannels, heartbeatTimer>>
    /\ UNCHANGED <<serverVars, pairVars>>

\* One SignalingClient, its application and the network under it.
NextChannel ==
    \/ AppConnect \/ AppDisconnect \/ AppRoom
    \/ Open \/ Message \/ CloseEvent
    \/ ConnectionTimeout \/ ReconnectTimeout \/ Advance

SpecChannel == Init /\ [][NextChannel]_vars

(* ---------------------- WebRTCConnection actions ----------------------- *)

\* The page as a handler finds it.
PageBefore ==
    Page(Before, session, peerConnections, dataChannels, heartbeatTimer, <<>>, <<>>)

\* The page as a handler leaves it, with the type of the message it got on
\* a data channel and what it returned to the application.
RunPageWith(p, type, s, message, result) ==
    /\ received' = message
    /\ returned' = result
    /\ dispatched' = Dispatched(type, s, FALSE)
    /\ client' = p.browser.client
    /\ webSockets' = p.browser.webSockets
    /\ reconnectTimer' = p.browser.reconnectTimer
    /\ emitted' = p.browser.emitted
    /\ outbox' = p.browser.outbox
    /\ session' = p.session
    /\ peerConnections' = p.peerConnections
    /\ dataChannels' = p.dataChannels
    /\ heartbeatTimer' = p.heartbeatTimer
    /\ notified' = p.notified
    /\ channelSent' = p.channelSent
    /\ UNCHANGED <<serverVars, pairVars, now>>

\* The page as a handler leaves it that got no message on a data channel
\* and returns nothing.
RunPage(p, type, s) == RunPageWith(p, type, s, "", "")

\* A message arrives on the open socket of a client that has a
\* WebRTCConnection: onmessage, and the listeners with what it emits.  The
\* server greets a socket first and once, sends the rest to a player it has
\* put in a room, and the other player answers an offer of this one once.
Signal ==
    \E s \in 1..Len(webSockets), data \in SessionInbound :
        LET b == onmessage(Before, s, data)
            p == listen([PageBefore EXCEPT !.browser = b], b.emitted)
            k == session.peerConnection
        IN  /\ webSockets[s].readyState = "OPEN"
            /\ data.value.type = "connection-established" <=> ~webSockets[s].established
            /\ data.value.type \in {"room-created", "room-joined"}
                   <=> (webSockets[s].established /\ client.roomId = 0)
            /\ data.value.type = "answer"
                   => /\ k # 0
                      /\ peerConnections[k].sentOffers > 0
                      /\ peerConnections[k].remote = ""
            /\ Len(p.peerConnections) <= MaxPeerConnections
            /\ RunPage(p, "message", s)

\* The browser has made and set the descriptions a createOffer() or
\* handleOffer() waits for; a closed peer connection completes nothing.
Negotiate ==
    \E k \in 1..Len(peerConnections) :
        /\ peerConnections[k].pending # ""
        /\ RunPage(negotiated(PageBefore, k), "negotiated", k)

\* The ICE connection state of a peer connection that has both descriptions
\* changes.
IceChange ==
    \E k \in 1..Len(peerConnections) :
      \E state \in CASE peerConnections[k].iceConnectionState = "new" -> {"connected", "failed"}
                     [] peerConnections[k].iceConnectionState = "connected" -> {"disconnected"}
                     [] peerConnections[k].iceConnectionState = "disconnected" -> {"connected", "failed"}
                     [] OTHER -> {} :
        /\ ~peerConnections[k].closed
        /\ peerConnections[k].local # ""
        /\ peerConnections[k].remote # ""
        /\ Len(oniceconnectionstatechange(PageBefore, k, state).peerConnections)
               <= MaxPeerConnections
        /\ RunPage(oniceconnectionstatechange(PageBefore, k, state), "iceconnectionstatechange", k)

\* The data channel of the other peer arrives on a connected peer connection
\* that answered an offer.
DataChannel ==
    \E k \in 1..Len(peerConnections) :
        /\ ~peerConnections[k].closed
        /\ peerConnections[k].local = "answer"
        /\ peerConnections[k].iceConnectionState = "connected"
        /\ \A c \in 1..Len(dataChannels) : dataChannels[c].pc # k
        /\ RunPage(ondatachannel(PageBefore, k), "datachannel", k)

\* A data channel of a connected peer connection opens.
ChannelOpen ==
    \E c \in 1..Len(dataChannels) :
        /\ dataChannels[c].readyState = "connecting"
        /\ ~peerConnections[dataChannels[c].pc].closed
        /\ peerConnections[dataChannels[c].pc].iceConnectionState = "connected"
        /\ RunPage(channelOnOpen(PageBefore, now, c), "channel-open", c)

\* A data channel closes: the peer or the transport closed it, or the
\* closing that a close() started completes.
ChannelClose ==
    \E c \in 1..Len(dataChannels) :
        /\ dataChannels[c].readyState \in {"open", "closing"}
        /\ RunPage(channelOnClose(PageBefore, c), "channel-close", c)

\* A message of the peer arrives on an open data channel.
ChannelMessage ==
    \E c \in 1..Len(dataChannels), message \in ChannelData :
        /\ dataChannels[c].readyState = "open"
        /\ RunPageWith(channelOnMessage(PageBefore, now, c, message), "channel-message", c,
                       message.type, "")

\* The application sends a gameplay message: sendPositionUpdate(x, y).  The
\* send() of an open channel may throw, when its buffer is full.
AppSend ==
    \E throws \in BOOLEAN :
        LET message == GameMessage("POSITION_UPDATE", client.playerId, "")
        IN  /\ webSockets # <<>>
            /\ throws => sendMessageReturns(PageBefore, FALSE)
            /\ RunPageWith(sendMessageThrowing(PageBefore, message, throws), "sendMessage", 0, "",
                           IF sendMessageReturns(PageBefore, throws) THEN "true" ELSE "false")

\* The application calls disconnect() of the WebRTCConnection.
SessionDisconnect ==
    /\ session.peerConnection # 0
    /\ RunPage(closePeerConnection(PageBefore), "disconnect", 0)

\* The interval of startHeartbeat fires.
Heartbeat ==
    /\ heartbeatTimer # 0
    /\ heartbeatTimer <= now
    /\ Len(heartbeat(PageBefore, now).peerConnections) <= MaxPeerConnections
    /\ RunPage(heartbeat(PageBefore, now), "heartbeat", 0)

\* Time passes, up to the next timer, while the clock is within its bound.
AdvanceBeat ==
    /\ now < MaxBeats * heartbeatIntervalMs
    /\ Advance

\* Time passes by one period of the heartbeat while no timer is pending.
Idle ==
    /\ now < MaxBeats * heartbeatIntervalMs
    /\ Deadlines = {}
    /\ now' = now + heartbeatIntervalMs
    /\ dispatched' = Dispatched("", 0, FALSE)
    /\ emitted' = <<>>
    /\ outbox' = <<>>
    /\ notified' = <<>>
    /\ channelSent' = <<>>
    /\ received' = ""
    /\ returned' = ""
    /\ UNCHANGED <<client, webSockets, reconnectTimer>>
    /\ UNCHANGED <<session, peerConnections, dataChannels, heartbeatTimer>>
    /\ UNCHANGED <<serverVars, pairVars>>

\* One WebRTCConnection on a connected signaling client, the other player
\* and the network under it.
NextSession ==
    \/ AppConnect \/ Open \/ ConnectionTimeout \/ Signal \/ Negotiate
    \/ IceChange \/ DataChannel \/ ChannelOpen \/ ChannelClose \/ ChannelMessage
    \/ AppSend \/ SessionDisconnect
    \/ Heartbeat \/ AdvanceBeat \/ Idle

SpecSession == Init /\ [][NextSession]_vars

(* ------------------------ two pages on the server --------------------- *)

\* The two pages: X is 1, Y is 2; the server gives the connection of page i
\* the playerId i.
Parties == 1..2
Other(i) == 3 - i

\* Page i as a handler finds it.
PageOf(i) ==
    [pair[i] EXCEPT !.browser.emitted = <<>>, !.browser.outbox = <<>>,
                    !.notified = <<>>, !.channelSent = <<>>]

\* The messages of an outbox of a page, or of what the server sent to
\* socket i.
Messages(out) == [k \in 1..Len(out) |-> out[k].message]
SentTo(out, i) ==
    LET To(e) == e.to = i
    IN  Messages(SelectSeq(out, To))

\* Page i as a handler leaves it: what it sent on its socket is under way
\* to the server, after what w holds.
Leave(i, p, w) ==
    /\ pair' = [pair EXCEPT ![i] = p]
    /\ wires' = [w EXCEPT !.up[i] = @ \o Messages(p.browser.outbox)]
    /\ UNCHANGED <<serverVars, now, clientVars, sessionVars>>

\* The server as a handler leaves it: what it sent is under way to the
\* pages, after what w holds.
Relay(outcome, w) ==
    /\ Apply(outcome)
    /\ wires' = [w EXCEPT !.down = [i \in Parties |-> @[i] \o SentTo(outcome.sent, i)]]
    /\ UNCHANGED <<pair, now, clientVars, sessionVars>>

\* The application of a page calls connect(serverUrl).
PairConnect ==
    \E i \in Parties :
        /\ pair[i].browser.webSockets = <<>>
        /\ Leave(i, [PageOf(i) EXCEPT !.browser = connect(@, now, FALSE)], wires)

\* The server accepts the connection of a page, X first.
PairAccept ==
    \E i \in Parties :
        /\ pair[i].browser.webSockets # <<>>
        /\ sockets[i] = "none"
        /\ \A q \in PlayerIds : q < i => sockets[q] # "none"
        /\ sockets' = [sockets EXCEPT ![i] = "open"]
        /\ handled' = Event("connection", i, NotJson)
        /\ Relay(Outcome(rooms, playerRooms, roomsCreated,
                         sendToSocket(sockets', i,
                             [NoMessage EXCEPT !.type = "connection-established",
                                               !.playerId = i])),
                 wires)

\* The socket of a page opens.
PairOpen ==
    \E i \in Parties :
        /\ sockets[i] = "open"
        /\ pair[i].browser.webSockets[1].readyState = "CONNECTING"
        /\ Leave(i, [PageOf(i) EXCEPT !.browser = onopen(@, 1)], wires)

\* X, greeted, creates a room.
PairCreate ==
    /\ pair[1].browser.client.playerId # 0
    /\ roomsCreated = 0
    /\ wires.up[1] = <<>>
    /\ Leave(1, [PageOf(1) EXCEPT !.browser = createRoomRequest(@)], wires)

\* Y, greeted, joins the room of X by the code X was given.
PairJoin ==
    /\ pair[2].browser.client.playerId # 0
    /\ pair[1].browser.client.roomCode # ""
    /\ playerRooms[2] = 0
    /\ wires.up[2] = <<>>
    /\ Leave(2, [PageOf(2) EXCEPT !.browser = joinRoom(@, pair[1].browser.client.roomCode)],
             wires)

\* The server handles the next message of a page.
PairReceive ==
    \E i \in Parties :
      \E code \in IF wires.up[i] # <<>> /\ CreatesRoom(Json(Head(wires.up[i])))
                  THEN RoomCodes ELSE {""} :
        /\ wires.up[i] # <<>>
        /\ sockets[i] = "open"
        /\ handled' = Event("message", i, Json(Head(wires.up[i])))
        /\ UNCHANGED sockets
        /\ Relay(onMessage(sockets, rooms, playerRooms, roomsCreated, now, code, i,
                           Json(Head(wires.up[i]))),
                 [wires EXCEPT !.up[i] = Tail(@)])

\* The next message of the server arrives at a page: onmessage of the
\* signaling client, and the listeners of the WebRTCConnection with what it
\* emits.
PairDeliver ==
    \E i \in Parties :
        /\ wires.down[i] # <<>>
        /\ pair[i].browser.webSockets[1].readyState = "OPEN"
        /\ \E b \in {onmessage(PageOf(i).browser, 1, Json(Head(wires.down[i])))} :
             \E p \in {listen([PageOf(i) EXCEPT !.browser = b], b.emitted)} :
               Leave(i, p, [wires EXCEPT !.down[i] = Tail(@)])

\* The descriptions a createOffer() or handleOffer() of a page waits for are
\* made and set.
PairNegotiate ==
    \E i \in Parties :
      \E k \in 1..Len(pair[i].peerConnections) :
        /\ pair[i].peerConnections[k].pending # ""
        /\ Leave(i, negotiated(PageOf(i), k), wires)

\* Both descriptions are set on the peer connection p has, and it is new.
Described(p) ==
    /\ p.session.peerConnection # 0
    /\ p.peerConnections[p.session.peerConnection].local # ""
    /\ p.peerConnections[p.session.peerConnection].remote # ""

\* ICE succeeds on the peer connection of a page, once both ends have both
\* descriptions.
PairIce ==
    \E i \in Parties :
        /\ Described(pair[i])
        /\ Described(pair[Other(i)])
        /\ pair[i].peerConnections[pair[i].session.peerConnection].iceConnectionState = "new"
        /\ Leave(i, oniceconnectionstatechange(PageOf(i), pair[i].session.peerConnection,
                                               "connected"),
                 wires)

\* The data channel of the Offerer arrives at the connected peer connection
\* of the Answerer.
PairDataChannel ==
    \E i \in Parties :
      \E k \in 1..Len(pair[i].peerConnections) :
        /\ ~pair[i].peerConnections[k].closed
        /\ pair[i].peerConnections[k].local = "answer"
        /\ pair[i].peerConnections[k].iceConnectionState = "connected"
        /\ \A c \in 1..Len(pair[i].dataChannels) : pair[i].dataChannels[c].pc # k
        /\ Leave(i, ondatachannel(PageOf(i), k), wires)

\* A data channel of a connected peer connection of a page opens.
PairChannelOpen ==
    \E i \in Parties :
      \E c \in 1..Len(pair[i].dataChannels) :
        /\ pair[i].dataChannels[c].readyState = "connecting"
        /\ pair[i].peerConnections[pair[i].dataChannels[c].pc].iceConnectionState = "connected"
        /\ Leave(i, channelOnOpen(PageOf(i), now, c), wires)

\* The closing of a data channel that a page closed completes.
PairChannelClose ==
    \E i \in Parties :
      \E c \in 1..Len(pair[i].dataChannels) :
        /\ pair[i].dataChannels[c].readyState = "closing"
        /\ Leave(i, channelOnClose(PageOf(i), c), wires)

\* X and Y pair through the server and negotiate, with nothing failing: no
\* socket closes, the wires keep the order, ICE succeeds, and no timer runs
\* out before the pages are through.
NextPair ==
    \/ PairConnect \/ PairAccept \/ PairOpen \/ PairCreate \/ PairJoin
    \/ PairReceive \/ PairDeliver \/ PairNegotiate
    \/ PairIce \/ PairDataChannel \/ PairChannelOpen \/ PairChannelClose

SpecPair == Init /\ [][NextPair]_vars

\* The same where whatever can happen does.
SpecPairLive == SpecPair /\ WF_vars(NextPair)

(* ------------------- one client that reconnects, on the server -------- *)

\* The client of the browser on the server: its socket s is the connection
\* the server gives the playerId s, for the first socket and the one a
\* reconnect makes; wires.up[s] and wires.down[s] are what is under way on
\* it.  Another player, the connection with the playerId Stayer, creates a
\* room or joins one and keeps its socket.
Stayer == 3

\* What a handler of the client sent on socket s.
SentOn(out, s) ==
    LET On(e) == e.socket = s
    IN  Messages(SelectSeq(out, On))

\* The browser as a handler leaves it: what it sent on a socket is under
\* way to the server, after what w holds.
RunOnWire(b, type, s, w) ==
    /\ dispatched' = Dispatched(type, s, FALSE)
    /\ client' = b.client
    /\ webSockets' = b.webSockets
    /\ reconnectTimer' = b.reconnectTimer
    /\ emitted' = b.emitted
    /\ outbox' = b.outbox
    /\ notified' = <<>>
    /\ channelSent' = <<>>
    /\ received' = ""
    /\ returned' = ""
    /\ wires' = [w EXCEPT !.up = [i \in Parties |-> @[i] \o SentOn(b.outbox, i)]]
    /\ UNCHANGED <<session, peerConnections, dataChannels, heartbeatTimer>>
    /\ UNCHANGED <<serverVars, pair, now>>

\* The server accepts the connection of a socket of the client.
RejoinAccept ==
    \E s \in Parties :
        /\ s <= Len(webSockets)
        /\ webSockets[s].readyState = "CONNECTING"
        /\ sockets[s] = "none"
        /\ sockets' = [sockets EXCEPT ![s] = "open"]
        /\ handled' = Event("connection", s, NotJson)
        /\ Relay(Outcome(rooms, playerRooms, roomsCreated,
                         sendToSocket(sockets', s,
                             [NoMessage EXCEPT !.type = "connection-established",
                                               !.playerId = s])),
                 wires)

\* The server accepts the connection of the other player.
StayerConnects ==
    /\ sockets[Stayer] = "none"
    /\ sockets' = [sockets EXCEPT ![Stayer] = "open"]
    /\ handled' = Event("connection", Stayer, NotJson)
    /\ Relay(Outcome(rooms, playerRooms, roomsCreated, <<>>), wires)

\* The other player, in no room, creates a room or joins one by a code.
StayerSends ==
    \E m \in {OfType("create-room")}
              \cup {[NoMessage EXCEPT !.type = "join-room", !.roomCode = c] : c \in RoomCodes} :
      \E code \in IF m.type = "create-room" THEN RoomCodes ELSE {""} :
        /\ sockets[Stayer] = "open"
        /\ playerRooms[Stayer] = 0
        /\ m.type = "create-room" => roomsCreated < MaxRooms - 1
        /\ handled' = Event("message", Stayer, Json(m))
        /\ UNCHANGED sockets
        /\ Relay(onMessage(sockets, rooms, playerRooms, roomsCreated, now, code, Stayer,
                           Json(m)),
                 wires)

\* A socket of the client that the server has accepted opens.
RejoinOpen ==
    \E s \in Parties :
        /\ s <= Len(webSockets)
        /\ webSockets[s].readyState = "CONNECTING"
        /\ sockets[s] = "open"
        /\ RunOnWire(onopen(Before, s), "open", s, wires)

\* The application of the client, in no room and with nothing under way,
\* calls createRoom() on its first socket or joinRoom(roomCode).
RejoinApp ==
    /\ client.socket \in Parties
    /\ webSockets[client.socket].readyState = "OPEN"
    /\ client.roomCode = ""
    /\ \A s \in Parties : wires.up[s] = <<>> /\ wires.down[s] = <<>>
    /\ \/ /\ client.socket = 1
          /\ roomsCreated < MaxRooms
          /\ RunOnWire(createRoomRequest(Before), "createRoom", 0, wires)
       \/ \E roomCode \in RoomCodes :
              RunOnWire(joinRoom(Before, roomCode), "joinRoom", 0, wires)

\* The next message of the server arrives on an open socket of the client.
RejoinDeliver ==
    \E s \in Parties :
        /\ s <= Len(webSockets)
        /\ webSockets[s].readyState = "OPEN"
        /\ wires.down[s] # <<>>
        /\ RunOnWire(onmessage(Before, s, Json(Head(wires.down[s]))), "message", s,
                     [wires EXCEPT !.down[s] = Tail(@)])

\* The server sees the socket of a connection close.
RejoinClose ==
    \E p \in PlayerIds :
        /\ sockets[p] = "open"
        /\ sockets' = [sockets EXCEPT ![p] = "closed"]
        /\ handled' = Event("close", p, NotJson)
        /\ Relay(onClose(sockets', rooms, playerRooms, roomsCreated, p), wires)

\* The timer of attemptReconnect fires, while the client has had one socket.
RejoinTimer ==
    /\ reconnectTimer # 0
    /\ reconnectTimer <= now
    /\ Len(webSockets) < 2
    /\ RunOnWire(reconnectCallback(Before, now), "reconnectTimeout", 0, wires)

\* One client and another player on the server, with sockets that drop: the
\* client and the server each see a close when it reaches them.
NextRejoin ==
    \/ AppConnect \/ RejoinAccept \/ RejoinOpen \/ RejoinApp
    \/ StayerConnects \/ StayerSends
    \/ PairReceive \/ RejoinDeliver
    \/ CloseEvent \/ RejoinClose
    \/ ConnectionTimeout \/ RejoinTimer \/ Advance

SpecRejoin == Init /\ [][NextRejoin]_vars

(* ------------------------------ claims -------------------------------- *)

\* The ids of the players of a room.
IdsIn(room) == {room.players[k].id : k \in 1..Len(room.players)}

\* The ids of the players of a room that are marked as its host.
Hosts(room) == {room.players[k].id : k \in {j \in 1..Len(room.players) : room.players[j].isHost}}

\* The error message with the given text, as sent to a socket.
ErrorTo(socket, error) ==
    [to |-> socket, message |-> [NoMessage EXCEPT !.type = "error", !.error = error]]

\* The event is a join-room that names a code.
IsJoin(e) ==
    e.kind = "message" /\ e.data.parses /\ e.data.value.type = "join-room"
    /\ e.data.value.roomCode # ""

\* The event is an offer, answer or ice-candidate with its room id and payload.
IsRelay(e) == e.kind = "message" /\ e.data \in RelayData

\* C1: every room of the registry has at most 2 players, after every
\* create-room, join-room, close and sweep.
C1_AtMostTwoPlayers == \A i \in 1..Len(rooms) : Len(rooms[i].players) <= 2

\* A connection outside a room of two has just asked to join it and was refused.
C1_Witness ==
    /\ IsJoin(handled)
    /\ LET i == getRoomByCode(rooms, handled.data.value.roomCode)
       IN  /\ i # 0
           /\ Len(rooms[i].players) = 2
           /\ handled.playerId \notin IdsIn(rooms[i])
    /\ Len(sent) = 1 /\ sent[1].message.type = "error"

\* C2: every room has exactly one player with isHost = true, and a room that
\* stays in the registry over a step keeps the same host.
C2_OneHostForLife ==
    [][\A i \in 1..Len(rooms') :
          /\ Cardinality(Hosts(rooms'[i])) = 1
          /\ \A j \in 1..Len(rooms) :
                rooms[j].id = rooms'[i].id => Hosts(rooms'[i]) = Hosts(rooms[j])]_vars

\* C3: a join-room whose code resolves to a room with two players is answered
\* with the error 'Room <code> is full' and nothing else is sent; the rooms
\* and the player-to-room mapping stay as they were.
C3_FullRoomRejects ==
    [][(/\ IsJoin(handled')
        /\ LET i == getRoomByCode(rooms, handled'.data.value.roomCode)
           IN  i # 0 /\ Len(rooms[i].players) = 2)
       => /\ sent' = <<ErrorTo(handled'.playerId,
                               <<"Room ", handled'.data.value.roomCode, " is full">>)>>
          /\ rooms' = rooms
          /\ playerRooms' = playerRooms]_vars

\* A join-room for a room of two has just been answered with the full error.
C3_Witness ==
    /\ IsJoin(handled)
    /\ LET i == getRoomByCode(rooms, handled.data.value.roomCode)
       IN  i # 0 /\ Len(rooms[i].players) = 2
    /\ sent = <<ErrorTo(handled.playerId,
                        <<"Room ", handled.data.value.roomCode, " is full">>)>>

\* C4: after a connection's socket closes, its playerId is in no room, and if
\* a room it was in is left with exactly one occupant, that occupant has been
\* sent player-disconnected with the closed connection's playerId.
C4_ClosedPlayerGone ==
    [][handled'.kind = "close" =>
        LET p == handled'.playerId
        IN  /\ \A i \in 1..Len(rooms') : p \notin IdsIn(rooms'[i])
            /\ \A j \in 1..Len(rooms) :
                  LET i == getRoom(rooms', rooms[j].id)
                  IN  (/\ p \in IdsIn(rooms[j])
                       /\ i # 0
                       /\ Len(rooms'[i].players) = 1)
                      => \E k \in 1..Len(sent') :
                            /\ sent'[k].to = rooms'[i].players[1].id
                            /\ sent'[k].message.type = "player-disconnected"
                            /\ sent'[k].message.playerId = p]_vars

\* C5: whenever a join-room is answered with room-joined, the joiner is in
\* that room with isHost = false and the room's host has been sent
\* player-joined with the joiner's playerId.
C5_JoinNotifiesHost ==
    (/\ IsJoin(handled)
     /\ Len(sent) >= 1
     /\ sent[1].to = handled.playerId
     /\ sent[1].message.type = "room-joined")
    => LET i == getRoom(rooms, sent[1].message.roomId)
       IN  /\ i # 0
           /\ Player(handled.playerId, FALSE) \in
                  {rooms[i].players[k] : k \in 1..Len(rooms[i].players)}
           /\ \E h \in Hosts(rooms[i]) :
                 \E k \in 1..Len(sent) :
                    /\ sent[k].to = h
                    /\ sent[k].message.type = "player-joined"
                    /\ sent[k].message.playerId = handled.playerId

\* C6: when a member of a room of two sends offer, answer or ice-candidate
\* with that room's id, exactly one message goes out: to the other occupant,
\* of the same type, with the same payload and the sender's playerId; the
\* registry stays as it was.
C6_RelayToOther ==
    [][(/\ IsRelay(handled')
        /\ LET i == getRoom(rooms, handled'.data.value.roomId)
           IN  /\ i # 0
               /\ Len(rooms[i].players) = 2
               /\ handled'.playerId \in IdsIn(rooms[i]))
       => LET m == handled'.data.value
              i == getRoom(rooms, m.roomId)
          IN  /\ Len(sent') = 1
              /\ sent'[1].to \in IdsIn(rooms[i]) \ {handled'.playerId}
              /\ sent'[1].message = [m EXCEPT !.roomId = 0,
                                             !.playerId = handled'.playerId]
              /\ rooms' = rooms
              /\ playerRooms' = playerRooms]_vars

\* C7: an offer, answer or ice-candidate from a connection that is not a
\* member of the room its roomId names puts no message on the socket of any
\* occupant of that room.
C7_OnlyMembersReach ==
    [][IsRelay(handled') =>
        LET i == getRoom(rooms, handled'.data.value.roomId)
        IN  (i # 0 /\ handled'.playerId \notin IdsIn(rooms[i]))
            => \A k \in 1..Len(sent') : sent'[k].to \notin IdsIn(rooms[i])]_vars

\* C8: when a close removes the last occupant of a room, lookup by the room's
\* id and lookup by the room's code both give undefined afterwards, and the
\* registry never holds a room without players.
C8_LastOutDeletesRoom ==
    [][/\ \A i \in 1..Len(rooms') : Len(rooms'[i].players) > 0
       /\ handled'.kind = "close" =>
            \A j \in 1..Len(rooms) :
                (/\ IdsIn(rooms[j]) = {handled'.playerId}
                 /\ playerRooms[handled'.playerId] = rooms[j].id)
                => /\ getRoom(rooms', rooms[j].id) = 0
                   /\ getRoomByCode(rooms', rooms[j].code) = 0]_vars

\* C9: a join-room whose code matches no room is answered with the error
\* 'Room with code <code> not found' to the requester and nothing else is
\* sent; the rooms, with their players and status, and the player-to-room
\* mapping stay as they were.
C9_UnknownCodeRejects ==
    [][(/\ IsJoin(handled')
        /\ \A i \in 1..Len(rooms) : rooms[i].code # handled'.data.value.roomCode)
       => /\ sent' = <<ErrorTo(handled'.playerId,
                               <<"Room with code ", handled'.data.value.roomCode,
                                 " not found">>)>>
          /\ rooms' = rooms
          /\ playerRooms' = playerRooms]_vars

\* A join-room with a code no room has was just answered, with rooms present.
C9_Witness ==
    /\ IsJoin(handled)
    /\ Len(rooms) > 0
    /\ \A i \in 1..Len(rooms) : rooms[i].code # handled.data.value.roomCode
    /\ sent = <<ErrorTo(handled.playerId,
                        <<"Room with code ", handled.data.value.roomCode, " not found">>)>>

\* C10: text that does not parse, a message of unknown type and a message
\* that lacks a field its type needs each get exactly one error reply, to the
\* sender; no socket changes state, so the sender stays open for its later
\* messages, and the registry stays as it was.
C10_BadMessageOneError ==
    [][(handled'.kind = "message" /\ handled'.data \in ProtocolData)
       => /\ Len(sent') = 1
          /\ sent'[1].to = handled'.playerId
          /\ sent'[1].message.type = "error"
          /\ sockets' = sockets
          /\ sockets'[handled'.playerId] = "open"
          /\ rooms' = rooms
          /\ playerRooms' = playerRooms
          /\ roomsCreated' = roomsCreated]_vars

\* A member of a room of two sent an offer without its payload and got the error.
C10_Witness ==
    /\ handled.kind = "message"
    /\ handled.data.parses
    /\ handled.data.value.type = "offer"
    /\ handled.data.value.offer = ""
    /\ LET i == getRoom(rooms, handled.data.value.roomId)
       IN  i # 0 /\ Len(rooms[i].players) = 2 /\ handled.playerId \in IdsIn(rooms[i])
    /\ sent = <<ErrorTo(handled.playerId, <<"Room ID and offer are required">>)>>

\* C11: an offer, answer or ice-candidate whose roomId names no room, or
\* whose room has no occupant other than the sender, is dropped: no message is
\* sent to any connection, the sender included, and the registry stays as it
\* was.
C11_NoRoomNoOtherDropped ==
    [][(/\ IsRelay(handled')
        /\ LET i == getRoom(rooms, handled'.data.value.roomId)
           IN  i = 0 \/ IdsIn(rooms[i]) \subseteq {handled'.playerId})
       => /\ sent' = <<>>
          /\ rooms' = rooms
          /\ playerRooms' = playerRooms
          /\ roomsCreated' = roomsCreated]_vars

\* The creator of a room, alone in it, just sent a negotiation message for
\* it while another connection was open, and nothing was sent.
C11_Witness ==
    /\ IsRelay(handled)
    /\ LET i == getRoom(rooms, handled.data.value.roomId)
       IN  i # 0 /\ IdsIn(rooms[i]) = {handled.playerId}
    /\ \E q \in PlayerIds : q # handled.playerId /\ sockets[q] = "open"
    /\ sent = <<>>

\* C12: the promise of a connect() is resolved only once connection-established
\* has arrived on the socket that connect() made, so never before the client
\* has recorded the playerId the server gave it.
C12_ResolvedAfterEstablished ==
    \A s \in 1..Len(webSockets) :
        webSockets[s].promise = "resolved"
            => webSockets[s].established /\ client.playerId # 0

\* C13: the promise of the application's connect() is rejected when the
\* connection has not succeeded (connection-established has not arrived on
\* it) by the time its 10 second timeout runs, and when its socket closes
\* uncleanly without having succeeded; and no reconnect timer is pending
\* then.
C13_FailsWithoutSuccess ==
    \A s \in 1..Len(webSockets) :
        (/\ ~webSockets[s].reconnect
         /\ ~webSockets[s].established
         /\ dispatched.socket = s
         /\ \/ dispatched.type = "connectionTimeout"
            \/ dispatched.type = "close" /\ ~dispatched.wasClean)
        => webSockets[s].promise = "rejected" /\ reconnectTimer = 0

\* The reconnect attempts made in a row so far: the sockets made last by the
\* timer of attemptReconnect that have not opened.
Streak ==
    LET others == {s \in 1..Len(webSockets) :
                      ~webSockets[s].reconnect \/ webSockets[s].opened}
        last == IF others = {} THEN 0
                ELSE CHOOSE s \in others : \A o \in others : o <= s
    IN  Len(webSockets) - last

\* The delays of the claim, in ms, by attempt.
BackoffMs == <<1000, 2000, 4000, 8000, 16000>>

\* C14: in a row of reconnect attempts after a connection was lost, the k-th
\* attempt, for k in 1..5, is scheduled by a step that emits reconnecting with
\* attempt = k and maxAttempts = 5 and sets the timer to fire after exactly
\* 2^(k-1) * 1000 ms; a timer is never set without that event, and no attempt
\* beyond the 5th is made.
C14_BackoffSchedule ==
    /\ Streak <= 5
    /\ dispatched.type = "reconnectTimeout" => Streak \in 1..5
    /\ (dispatched.type = "close" /\ reconnectTimer # 0)
           => Len(emitted) = 1 /\ emitted[1].event = "reconnecting"
    /\ \A i \in 1..Len(emitted) :
           emitted[i].event = "reconnecting"
           => LET k == Streak + 1
              IN  /\ k \in 1..5
                  /\ emitted[i].message.attempt = k
                  /\ emitted[i].message.maxAttempts = 5
                  /\ emitted[i].message.delay = BackoffMs[k]
                  /\ reconnectTimer = now + BackoffMs[k]

\* The 5th attempt in a row has just been scheduled, 16 seconds ahead.
C14_Witness ==
    /\ Streak = 4
    /\ Len(emitted) = 1
    /\ emitted[1].event = "reconnecting"
    /\ emitted[1].message.attempt = 5
    /\ reconnectTimer = now + 16000

\* Five reconnect attempts in a row have failed: the socket of the 5th has
\* closed without opening.
Exhausted ==
    Streak = 5 /\ webSockets[Len(webSockets)].readyState = "CLOSED"

\* The last step emitted the event.
Emits(event) == \E i \in 1..Len(emitted) : emitted[i].event = event

\* C15: when every reconnect attempt of an outage fails, max-reconnect-attempts
\* is emitted by the close of the 5th attempt's socket, once, and by no other
\* step; from then on every socket is closed, no reconnect timer is pending
\* and reconnecting is not emitted.
C15_GivesUpOnce ==
    /\ Emits("max-reconnect-attempts")
           => /\ Exhausted
              /\ dispatched.type = "close"
              /\ dispatched.socket = Len(webSockets)
              /\ Len(emitted) = 1
    /\ (/\ Exhausted
        /\ client.socket # 0
        /\ dispatched.type = "close"
        /\ dispatched.socket = Len(webSockets))
           => Emits("max-reconnect-attempts")
    /\ Exhausted
           => /\ \A s \in 1..Len(webSockets) : webSockets[s].readyState = "CLOSED"
              /\ reconnectTimer = 0
              /\ ~Emits("reconnecting")

\* The 5th attempt in a row has just failed and the client has given up.
C15_Witness ==
    /\ Exhausted
    /\ dispatched.type = "close"
    /\ Emits("max-reconnect-attempts")

\* C16: when the socket of a reconnect attempt opens, the client emits
\* reconnected and, if it has a room code recorded, sends one join-room with
\* that code on the new socket; without a recorded code it sends nothing.
C16_RejoinOnReconnect ==
    (dispatched.type = "open" /\ webSockets[dispatched.socket].reconnect)
    => /\ Len(emitted) = 1
       /\ emitted[1].event = "reconnected"
       /\ dispatched.socket = Len(webSockets)
       /\ outbox = IF client.roomCode = "" THEN <<>>
                   ELSE <<[socket |-> dispatched.socket,
                           message |-> [NoMessage EXCEPT !.type = "join-room",
                                                         !.roomCode = client.roomCode]]>>

\* A client that had joined room ZZ99ZZ has reconnected and asked to join it
\* again.
C16_Witness ==
    /\ dispatched.type = "open"
    /\ webSockets[dispatched.socket].reconnect
    /\ client.roomCode = "ZZ99ZZ"
    /\ Len(outbox) = 1
    /\ outbox[1].message.type = "join-room"

\* The application has called disconnect(): only that leaves a client that
\* has made a socket without one.
Disconnected == webSockets # <<>> /\ client.socket = 0

\* C17: once the application has called disconnect(), whether the client was
\* connected, connecting or waiting to reconnect, no reconnecting is emitted,
\* no reconnect timer is pending or fires, no socket is made or connecting
\* and no join-room is sent.
C17_QuietAfterDisconnect ==
    Disconnected
    => /\ ~Emits("reconnecting")
       /\ reconnectTimer = 0
       /\ dispatched.type \notin {"reconnectTimeout", "connect"}
       /\ \A s \in 1..Len(webSockets) : webSockets[s].readyState # "CONNECTING"
       /\ outbox = <<>>

\* disconnect() was called on a connected client and the close event of its
\* socket has been handled since.
C17_Witness ==
    /\ Disconnected
    /\ client.playerId # 0
    /\ dispatched.type = "close"
    /\ webSockets[dispatched.socket].established

(* --------------------- claims of the WebRTCConnection ------------------ *)

\* The kinds of the messages the last step sent to the server.
SentTypes == [i \in 1..Len(outbox) |-> outbox[i].message.type]

\* The last step handled a message of the server that made the signaling
\* client emit the event.
Received(event) == dispatched.type = "message" /\ Emits(event)

\* C18: the client that has handled player-joined is the Offerer, with a
\* data channel it created on its peer connection and an offer under way,
\* and the offer is what it sends when the descriptions are set; the client
\* that has handled an offer is the Answerer, with no data channel of its
\* own on its peer connection and that offer being applied, and an answer is
\* what it sends; no offer is ever sent for a peer connection made to answer
\* one, nor by a client while it is the Answerer.
C18_Roles ==
    LET k == session.peerConnection
    IN  /\ Received("player-joined")
           => /\ session.isHost
              /\ k # 0
              /\ session.dataChannel # 0
              /\ dataChannels[session.dataChannel].pc = k
              /\ dataChannels[session.dataChannel].readyState = "connecting"
              /\ peerConnections[k].pending = "createOffer"
        /\ Received("offer")
           => /\ ~session.isHost
              /\ k # 0
              /\ session.dataChannel = 0
              /\ \A c \in 1..Len(dataChannels) : dataChannels[c].pc # k
              /\ peerConnections[k].pending = "handleOffer"
              /\ peerConnections[k].offer = "sdp-a"
        /\ dispatched.type = "negotiated"
           => IF session.isHost
              THEN /\ SentTypes = <<"offer">>
                   /\ peerConnections[dispatched.socket].local = "offer"
              ELSE /\ SentTypes = <<"answer">>
                   /\ peerConnections[dispatched.socket].remote = "offer"
                   /\ peerConnections[dispatched.socket].local = "answer"
        /\ ~session.isHost => \A i \in 1..Len(outbox) : outbox[i].message.type # "offer"
        /\ \A j \in 1..Len(peerConnections) :
               peerConnections[j].offer # "" => peerConnections[j].sentOffers = 0

\* The Answerer has sent its answer, after its peer connection was lost and
\* the Offerer sent a new offer.
C18_Witness ==
    /\ dispatched.type = "negotiated"
    /\ ~session.isHost
    /\ SentTypes = <<"answer">>
    /\ session.peerConnection > 1

\* C19: a session is Connected only on a peer connection for which one
\* offer and one answer went through: the Offerer sent one offer and no
\* answer for it and has the answer to it set, the Answerer has the offer set
\* and sent one answer and no offer for it.  No peer connection has more
\* than one message sent for it, and a negotiation that completes sends for
\* the peer connection of the handshake under way, so the peer connections a
\* pairing or a restart made and abandoned add nothing.
C19_OneOfferOneAnswer ==
    LET k == session.peerConnection
    IN  /\ session.isConnected
           => /\ k # 0
              /\ IF session.isHost
                 THEN /\ peerConnections[k].sentOffers = 1
                      /\ peerConnections[k].sentAnswers = 0
                      /\ peerConnections[k].local = "offer"
                      /\ peerConnections[k].remote = "answer"
                 ELSE /\ peerConnections[k].sentOffers = 0
                      /\ peerConnections[k].sentAnswers = 1
                      /\ peerConnections[k].remote = "offer"
                      /\ peerConnections[k].local = "answer"
        /\ \A j \in 1..Len(peerConnections) :
               peerConnections[j].sentOffers + peerConnections[j].sentAnswers <= 1
        /\ dispatched.type = "negotiated"
           => /\ dispatched.socket = k
              /\ Len(outbox) = 1

\* The Offerer is Connected on the peer connection of a restart, after the
\* pairing made two peer connections in one step.
C19_Witness ==
    /\ session.isConnected
    /\ session.isHost
    /\ session.peerConnection = 3
    /\ peerConnections[1].sentOffers = 0
    /\ peerConnections[2].sentOffers = 1
    /\ dataChannels[session.dataChannel].readyState = "open"

\* The channel the role sends on is open.
ChannelIsOpen ==
    LET channel == IF session.isHost THEN session.dataChannel
                   ELSE session.remoteDataChannel
    IN  channel # 0 /\ dataChannels[channel].readyState = "open"

\* The last step was a tick of the heartbeat that sent a HEARTBEAT.
Beat ==
    /\ dispatched.type = "heartbeat"
    /\ \E i \in 1..Len(channelSent) : channelSent[i].message.type = "HEARTBEAT"

\* The last step told the listeners that the peer is gone.
ToldDisconnected ==
    \E i \in 1..Len(notified) : notified[i].event = "disconnected"

\* While the interval of the heartbeat runs it ticks every 2 seconds from
\* its start, each tick on a connected session with an open channel sends a
\* HEARTBEAT, and the first tick more than 10 seconds after the last
\* HEARTBEAT_ACK (or the start) marks the session Disconnected and tells the
\* listeners: no interval runs on more than 2 seconds past that deadline.
HeartbeatDeadline ==
    /\ heartbeatTimer # 0
       => /\ session.heartbeatInterval # 0
          /\ heartbeatTimer <= now + heartbeatIntervalMs
          /\ now <= heartbeatTimer
          /\ now - session.lastHeartbeatAck <= heartbeatTimeoutMs + heartbeatIntervalMs
    /\ (dispatched.type = "heartbeat" /\ heartbeatTimer # 0)
       => /\ now - session.lastHeartbeatAck <= heartbeatTimeoutMs
          /\ heartbeatTimer = now + heartbeatIntervalMs
          /\ (session.isConnected /\ ChannelIsOpen) => Beat
    /\ (dispatched.type = "heartbeat" /\ now - session.lastHeartbeatAck > heartbeatTimeoutMs)
       => /\ ~session.isConnected
          /\ ToldDisconnected

\* A tick found the last HEARTBEAT_ACK more than 10 seconds old and marked
\* the session Disconnected.
HeartbeatDeadlineWitness ==
    /\ dispatched.type = "heartbeat"
    /\ now - session.lastHeartbeatAck > heartbeatTimeoutMs
    /\ session.lastHeartbeatAck > 0
    /\ ToldDisconnected

\* C20: while the session is Connected and its data channel is open the
\* interval of the heartbeat is running, has ticked within the last 2
\* seconds, and the last HEARTBEAT_ACK (or the start of the interval) is no
\* more than 10 seconds and one tick old.
C20_HeartbeatWhileOpen ==
    (session.isConnected /\ ChannelIsOpen)
    => /\ heartbeatTimer # 0
       /\ heartbeatTimer <= now + heartbeatIntervalMs
       /\ now - session.lastHeartbeatAck <= heartbeatTimeoutMs + heartbeatIntervalMs

C22_SendReturns ==
    dispatched.type = "sendMessage"
    => /\ returned \in {"true", "false"}
       /\ (~session.isConnected \/ ~ChannelIsOpen)
          => (returned = "false" /\ channelSent = <<>>)
       /\ returned = "false" => channelSent = <<>>
       /\ returned = "true"
          => /\ session.isConnected
             /\ ChannelIsOpen
             /\ Len(channelSent) = 1
             /\ channelSent[1].message.type = "POSITION_UPDATE"
             /\ channelSent[1].channel =
                    (IF session.isHost THEN session.dataChannel
                     ELSE session.remoteDataChannel)

\* sendMessage was called on a session that is not Connected while its
\* channel is open, and returned false.
C22_Witness ==
    /\ dispatched.type = "sendMessage"
    /\ returned = "false"
    /\ ChannelIsOpen
    /\ ~session.isConnected

\* C23: no step passes a HEARTBEAT or a HEARTBEAT_ACK to the message
\* listeners; a HEARTBEAT got on a data channel is answered with one
\* HEARTBEAT_ACK on the channel of the role when the session is Connected
\* and with nothing otherwise; a HEARTBEAT_ACK is answered with nothing and
\* dates lastHeartbeatAck; a message of another type is passed to the
\* listeners, once.
C23_HeartbeatsIntercepted ==
    /\ \A i \in 1..Len(notified) : notified[i].type \notin {"HEARTBEAT", "HEARTBEAT_ACK"}
    /\ received = "HEARTBEAT"
       => /\ notified = <<>>
          /\ IF session.isConnected
             THEN /\ Len(channelSent) = 1
                  /\ channelSent[1].message.type = "HEARTBEAT_ACK"
                  /\ channelSent[1].channel = dispatched.socket
             ELSE channelSent = <<>>
    /\ received = "HEARTBEAT_ACK"
       => /\ notified = <<>>
          /\ channelSent = <<>>
          /\ session.lastHeartbeatAck = now
    /\ received \notin {"", "HEARTBEAT", "HEARTBEAT_ACK"}
       => /\ Len(notified) = 1
          /\ notified[1].type = received
          /\ channelSent = <<>>

\* A Connected session got a HEARTBEAT and answered it.
C23_Witness ==
    /\ received = "HEARTBEAT"
    /\ session.isConnected
    /\ Len(channelSent) = 1
    /\ channelSent[1].message.type = "HEARTBEAT_ACK"

\* C24: a gameplay message got on a data channel is passed to the message
\* listeners only by a session that is Connected.
C24_DeliveredWhileConnected ==
    (received \notin {"", "HEARTBEAT", "HEARTBEAT_ACK"} /\ notified # <<>>)
    => session.isConnected

\* The data channels that are connecting or open.
Live == {c \in 1..Len(dataChannels) : dataChannels[c].readyState \in {"connecting", "open"}}

\* At most one data channel is live, and it is on the peer connection of the
\* session; every other peer connection is closed.
OneLiveChannel ==
    /\ Cardinality(Live) <= 1
    /\ \A c \in Live : dataChannels[c].pc = session.peerConnection
    /\ \A j \in 1..Len(peerConnections) :
           j # session.peerConnection => peerConnections[j].closed

\* C26: the close event of a data channel that the session has replaced
\* changes neither the fields of the session nor its heartbeat timer.
C26_ReplacedChannelInert ==
    [][(/\ dispatched'.type = "channel-close"
        /\ dispatched'.socket \notin {session.dataChannel, session.remoteDataChannel})
       => (session' = session /\ heartbeatTimer' = heartbeatTimer)]_vars

\* C27: while the session is not Connected no heartbeat interval is active;
\* an active interval belongs to a session with a peer connection that is
\* not closed and whose channel of the role is open, so a tick never runs
\* against a closed or replaced peer connection.
C27_HeartbeatCancelled ==
    LET k == session.peerConnection
    IN  /\ ~session.isConnected => (heartbeatTimer = 0 /\ session.heartbeatInterval = 0)
        /\ heartbeatTimer # 0
           => /\ session.heartbeatInterval # 0
              /\ k # 0
              /\ ~peerConnections[k].closed
              /\ ChannelIsOpen
        /\ dispatched.type \in {"disconnect", "channel-close"} => heartbeatTimer = 0
        /\ ToldDisconnected => heartbeatTimer = 0

\* disconnect() was called on a session whose heartbeat was running.
C27_Witness ==
    /\ dispatched.type = "disconnect"
    /\ session.lastHeartbeatAck > 0
    /\ \E c \in 1..Len(dataChannels) : dataChannels[c].readyState = "closing"
    /\ heartbeatTimer = 0

\* C28: an Offerer that an ICE state disconnected or failed, or a heartbeat
\* timeout, has marked Disconnected while the signaling client is not
\* reconnecting has a new peer connection with a new data channel and an
\* offer under way, and has sent nothing to the server in that step; the
\* offer it sends when the descriptions are set carries the roomId the
\* client holds; a WebRTCConnection sends the server only offers and answers.
C28_OffererRestarts ==
    LET k == session.peerConnection
    IN  /\ (/\ session.isHost
            /\ ~session.reconnecting
            /\ ToldDisconnected
            /\ dispatched.type \in {"iceconnectionstatechange", "heartbeat"})
           => /\ k = Len(peerConnections)
              /\ ~peerConnections[k].closed
              /\ peerConnections[k].iceConnectionState = "new"
              /\ peerConnections[k].pending = "createOffer"
              /\ peerConnections[k].sentOffers = 0
              /\ session.dataChannel = Len(dataChannels)
              /\ dataChannels[session.dataChannel] = RTCDataChannel(k)
              /\ \A j \in 1..(k - 1) : peerConnections[j].closed
              /\ ~session.isConnected
              /\ outbox = <<>>
        /\ (dispatched.type = "negotiated" /\ session.isHost)
           => /\ Len(outbox) = 1
              /\ outbox[1].message.type = "offer"
              /\ outbox[1].message.roomId = client.roomId
              /\ client.roomId # 0
        /\ dispatched.type \notin {"connect", "open", "message", "connectionTimeout"}
           => \A i \in 1..Len(outbox) : outbox[i].message.type \in {"offer", "answer"}

\* The Offerer has sent the offer of a restart, after the handshake on its
\* previous peer connection had completed.
C28_Witness ==
    /\ dispatched.type = "negotiated"
    /\ session.isHost
    /\ session.peerConnection = 3
    /\ peerConnections[2].local = "offer"
    /\ peerConnections[2].remote = "answer"
    /\ Len(outbox) = 1
    /\ outbox[1].message.type = "offer"

\* C29: once the session has a role, taken when it made its first peer
\* connection on player-joined or on an offer, no step changes isHost.
C29_RoleFixed ==
    [][peerConnections # <<>> => session'.isHost = session.isHost]_vars

(* ----------------------- claims of the room status --------------------- *)

\* The close handled by the last step left room i with one occupant, who was
\* told of the departure.
LeftAlone(i) ==
    /\ handled.kind = "close"
    /\ Len(rooms[i].players) = 1
    /\ \E k \in 1..Len(sent) :
           /\ sent[k].message.type = "player-disconnected"
           /\ sent[k].to = rooms[i].players[1].id
           /\ playerRooms[sent[k].to] = rooms[i].id

\* C30: a room with two occupants is full, and a room that a
\* departure has left with one occupant is disconnected.
C30_DepartureDisconnects ==
    \A i \in 1..Len(rooms) :
        /\ Len(rooms[i].players) = 2 => rooms[i].status = "full"
        /\ LeftAlone(i) => rooms[i].status = "disconnected"

\* What the code keeps: a room is full exactly while it has two occupants,
\* which it becomes when its second player joins, and is waiting otherwise:
\* a departure that leaves one occupant puts it back to waiting, and no room
\* is ever disconnected.
StatusByOccupancy ==
    \A i \in 1..Len(rooms) :
        /\ Len(rooms[i].players) = 2 => rooms[i].status = "full"
        /\ Len(rooms[i].players) < 2 => rooms[i].status = "waiting"
        /\ LeftAlone(i) => rooms[i].status = "waiting"

\* A departure has left a room with one occupant.
SomeLeftAlone == \E i \in 1..Len(rooms) : LeftAlone(i)

\* The status of every room of rs follows the number of its players.
Occupancy(rs) ==
    \A i \in 1..Len(rs) :
        rs[i].status = (IF Len(rs[i].players) = 2 THEN "full" ELSE "waiting")

\* What addPlayerToRoom does to the registry as it is, for room roomId and
\* player p: nothing, returning false, for an unknown room or one with two
\* players; else true, and the room is full when that made it two.
AddContract(roomId, p) ==
    LET i == getRoom(rooms, roomId)
        r == addPlayerToRoom(rooms, playerRooms, roomId, Player(p, FALSE))
    IN  IF i = 0 \/ Len(rooms[i].players) = 2
        THEN ~r.ok /\ r.rooms = rooms /\ r.playerRooms = playerRooms
        ELSE /\ r.ok
             /\ \E k \in 1..Len(r.rooms[i].players) : r.rooms[i].players[k].id = p
             /\ r.playerRooms[p] = roomId
             /\ Occupancy(r.rooms)

\* What removePlayer does to the registry as it is, for player p: undefined
\* for a player in no room or whose room it deleted, else the surviving
\* room, waiting.
RemoveContract(p) ==
    LET r == removePlayer(rooms, playerRooms, p)
        j == getRoom(r.rooms, playerRooms[p])
    IN  /\ playerRooms[p] = 0 => r.room = 0 /\ r.rooms = rooms /\ r.playerRooms = playerRooms
        /\ playerRooms[p] # 0 =>
               /\ r.playerRooms[p] = 0
               /\ j = 0 => r.room = 0
               /\ j # 0 => /\ r.room = playerRooms[p]
                           /\ r.rooms[j].status = "waiting"
                           /\ Len(r.rooms[j].players) = 1
        /\ Occupancy(r.rooms)

\* C31: between the handlings a room is full exactly when it has two
\* players and waiting otherwise; addPlayerToRoom fails without a change on
\* an unknown or a full room and makes the room full at two; removePlayer
\* puts the surviving room back to waiting and returns it, and returns
\* undefined when the room is deleted or the player is in no room.
C31_StatusFollowsOccupancy ==
    /\ Occupancy(rooms)
    /\ \A roomId \in RoomIds \cup {0}, p \in PlayerIds : AddContract(roomId, p)
    /\ \A p \in PlayerIds : RemoveContract(p)

\* A room that was full has lost a player and waits with the other one,
\* who can be joined again.
C31_Witness ==
    \E i \in 1..Len(rooms) :
        /\ LeftAlone(i)
        /\ rooms[i].status = "waiting"
        /\ \E p \in PlayerIds :
               addPlayerToRoom(rooms, playerRooms, rooms[i].id, Player(p, FALSE)).rooms[i].status = "full"

(* --------------------------- claims of the sweep ----------------------- *)

\* The step is a run of cleanupOldRooms().
Swept == handled'.kind = "cleanup"

\* After the sweep no room older than maxAge is left, and every room that is
\* not older is.
SweepByAge ==
    /\ \A j \in 1..Len(rooms') : now - rooms'[j].createdAt <= maxAgeMs
    /\ \A i \in 1..Len(rooms) :
           now - rooms[i].createdAt <= maxAgeMs => \E j \in 1..Len(rooms') : rooms'[j] = rooms[i]

\* After the sweep no player is mapped to a room that is gone.
SweepUnmaps ==
    \A p \in PlayerIds : playerRooms'[p] # 0 => getRoom(rooms', playerRooms'[p]) # 0

\* After the sweep every player of a room that is left is mapped to it as
\* before.
SweepKeepsMappings ==
    \A j \in 1..Len(rooms') :
        \A k \in 1..Len(rooms'[j].players) :
            playerRooms[rooms'[j].players[k].id] = rooms'[j].id
                => playerRooms'[rooms'[j].players[k].id] = rooms'[j].id

\* C32: cleanupOldRooms(maxAge) leaves no room older than maxAge, whatever
\* the number of its players, removes no room that is not older, leaves no
\* player mapped to a removed room, and keeps the mapping of every player of
\* a room it leaves.
C32_SweepExact ==
    [][Swept => SweepByAge /\ SweepUnmaps /\ SweepKeepsMappings]_vars

\* What the sweep does keep.
SweepRooms == [][Swept => SweepByAge /\ SweepUnmaps]_vars

(* ------------------------ claims of the heartbeat ---------------------- *)

\* C36: whenever the session is Connected and the data channel it sends on
\* is open, the interval of the heartbeat is set, also for a session that
\* was marked Disconnected and is marked Connected again by the ICE state
\* with no data channel opening anew.
C36_ConnectedHasHeartbeat ==
    (session.isConnected /\ ChannelIsOpen) => session.heartbeatInterval # 0

(* ------------------------- claims of the two maps ---------------------- *)

\* C34: a playerId is a player of at most one room, and playerRooms maps it
\* to a room exactly when it is one of the players of that room.
C34_MapsConsistent ==
    \A p \in PlayerIds :
        /\ Cardinality({i \in 1..Len(rooms) : p \in IdsIn(rooms[i])}) <= 1
        /\ \A i \in 1..Len(rooms) : playerRooms[p] = rooms[i].id <=> p \in IdsIn(rooms[i])

\* What the code keeps: the room playerRooms maps a playerId to exists and
\* has it as a player.
MappedIsMember ==
    \A p \in PlayerIds :
        playerRooms[p] # 0
            => \E i \in 1..Len(rooms) : rooms[i].id = playerRooms[p] /\ p \in IdsIn(rooms[i])

(* ----------------------- claims of the connecting ---------------------- *)

\* Nothing is left that could settle the promise of the connect() that made
\* socket s: the socket is closed and its close event handled, and its
\* connection timeout is cleared or has fired.
Spent(s) ==
    /\ webSockets[s].readyState = "CLOSED"
    /\ webSockets[s].connectionTimeout = 0

\* C38: the promise of every connect(url) is resolved or rejected in the
\* end: once the socket it made is closed and its connection timeout is
\* gone, the promise is no longer pending.
C38_ConnectSettles ==
    \A s \in 1..Len(webSockets) : Spent(s) => webSockets[s].promise # "pending"

\* What the code keeps: the promise of a connect() made before the client
\* was ever greeted, and not given up by disconnect(), is settled when its
\* socket is spent.
FirstConnectSettles ==
    \A s \in 1..Len(webSockets) :
        (Spent(s) /\ client.playerId = 0 /\ client.socket # 0)
            => webSockets[s].promise # "pending"

(* -------------------- claims of the attempt counter -------------------- *)

\* C39: reconnectAttempts is never more than 5 and, while the client has a
\* socket, is the number of reconnect attempts made in a row; it is 0 after
\* every socket that opens, so the close of a socket that had opened
\* schedules attempt 1 of 5, one second ahead.
C39_CounterResets ==
    /\ client.reconnectAttempts \in 0..maxReconnectAttempts
    /\ client.socket # 0 => client.reconnectAttempts = Streak
    /\ (dispatched.type = "open" /\ client.socket # 0) => client.reconnectAttempts = 0
    /\ (/\ dispatched.type = "close"
        /\ webSockets[dispatched.socket].opened
        /\ Emits("reconnecting"))
           => /\ Len(emitted) = 1
              /\ emitted[1].message.attempt = 1
              /\ emitted[1].message.maxAttempts = maxReconnectAttempts
              /\ emitted[1].message.delay = 1000
              /\ reconnectTimer = now + 1000

\* A second outage begins: the socket of the second attempt of the first
\* outage had opened and has closed, and attempt 1 is scheduled.
C39_Witness ==
    /\ dispatched.type = "close"
    /\ dispatched.socket = 3
    /\ webSockets[3].opened
    /\ ~webSockets[2].opened
    /\ client.reconnectAttempts = 0
    /\ Emits("reconnecting")
    /\ emitted[1].message.attempt = 1

(* ------------------------ claims of the rejoining ---------------------- *)

\* The last step of the server handled the join-room that the client sent
\* on the socket of its reconnect, with the code of the room it had recorded.
Rejoining ==
    /\ handled.kind = "message"
    /\ handled.playerId = 2
    /\ handled.data.value.type = "join-room"
    /\ client.roomId # 0
    /\ handled.data.value.roomCode = client.roomCode

\* C37: when the server has handled the join-room a client re-issues after
\* its socket dropped and it reconnected, the new connection of the client
\* is a player of the room the client was in before the drop.
C37_RejoinRestores ==
    Rejoining
        => /\ playerRooms[2] = client.roomId
           /\ \E i \in 1..Len(rooms) : rooms[i].id = client.roomId /\ 2 \in IdsIn(rooms[i])

\* What the code keeps: the join-room of the reconnect puts the client back
\* when the room it recorded is still there, is the first of that code and
\* has room for one more.
RejoinWhenRoomWaits ==
    [][(/\ Rejoining'
        /\ \E i \in 1..Len(rooms) :
               /\ rooms[i].id = client.roomId
               /\ getRoomByCode(rooms, client.roomCode) = i
               /\ Len(rooms[i].players) < 2)
          => playerRooms'[2] = client.roomId]_vars

(* ------------------------ claims of the listeners ---------------------- *)

\* C33: a message of the server is handed once to the listeners of its
\* type: no event is emitted twice for it, a player-joined makes the
\* WebRTCConnection build one peer connection, and a player-disconnected
\* makes it handle one disconnection.
C33_DeliveredOnce ==
    [][dispatched'.type = "message"
          => /\ \A i, j \in 1..Len(emitted') :
                    emitted'[i].event = emitted'[j].event => i = j
             /\ (\E i \in 1..Len(emitted') : emitted'[i].event = "player-joined")
                    => Len(peerConnections') = Len(peerConnections) + 1
             /\ (\E i \in 1..Len(emitted') : emitted'[i].event = "player-disconnected")
                    => Cardinality({i \in 1..Len(notified') :
                                       notified'[i].event = "disconnected"}) = 1]_vars

\* What the code keeps: the messages of the negotiation are handed to the
\* listeners once, the others twice.
EmittedPerType ==
    dispatched.type = "message"
        => \A i \in 1..Len(emitted) :
               Cardinality({j \in 1..Len(emitted) : emitted[j].event = emitted[i].event})
                   = (IF emitted[i].event \in {"offer", "answer", "ice-candidate",
                                               "connected", "connection-established"}
                      THEN 1 ELSE 2)

(* ------------------------ claims of the two pages ---------------------- *)

\* Y is in the room X created.
Joined == playerRooms[1] # 0 /\ playerRooms[2] = playerRooms[1]

\* The offer of X has reached Y; the answer of Y has reached X.
OfferReached ==
    \E k \in 1..Len(pair[2].peerConnections) : pair[2].peerConnections[k].offer = "sdp-a"
AnswerReached ==
    \E k \in 1..Len(pair[1].peerConnections) : pair[1].peerConnections[k].remote = "answer"

\* C25: when nothing fails, X creates a room and Y joins it by the code, the
\* offer of X reaches Y, the answer of Y reaches X, and the session of X and
\* the session of Y each reach Connected.
C25_PairConnects ==
    /\ <>(Joined /\ OfferReached)
    /\ <>(Joined /\ AnswerReached)
    /\ <>(Joined /\ pair[1].session.isConnected)
    /\ <>(Joined /\ pair[2].session.isConnected)

\* C35: the playerId a signaling client has recorded is the one the server
\* gave it in its connection-established; the messages that carry the id of
\* the other player (player-joined, player-disconnected, a forwarded offer,
\* answer or ice-candidate) do not change it.
C35_PlayerIdKept ==
    \A i \in Parties : pair[i].browser.client.playerId \in {0, i}

\* Both sessions are Connected, X as the Offerer and Y as the Answerer, with
\* their data channels open.
C25_Witness ==
    /\ pair[1].session.isConnected
    /\ pair[2].session.isConnected
    /\ pair[1].session.isHost
    /\ ~pair[2].session.isHost
    /\ pair[1].session.dataChannel # 0
    /\ pair[1].dataChannels[pair[1].session.dataChannel].readyState = "open"
    /\ pair[2].session.remoteDataChannel # 0
    /\ pair[2].dataChannels[pair[2].session.remoteDataChannel].readyState = "open"

====
